---------------------------- MODULE Spec2Model ----------------------------
(***************************************************************************)
(* Model of the dictation pipeline engine of voice-dictator:               *)
(*   - the dictation state machine (src-tauri/src/state.rs): the pure      *)
(*     function `transition` and the thread-safe wrapper SharedAppState,   *)
(*     modelled at the granularity of its mutex operations;                *)
(*   - the Enhancement Client (src-tauri/src/enhance/openai_responses.rs)  *)
(*     with the Enhancement Validator (src-tauri/src/enhance/mod.rs);      *)
(*   - the Transcription Client (src-tauri/src/stt/openai.rs);             *)
(*   - the Chunker and the Transcript Assembler (src-tauri/src/stt/mod.rs);*)
(*   - the Silence Detector (src-tauri/src/vad/mod.rs);                    *)
(*   - the Audio Capture (src-tauri/src/audio/capture_cpal.rs), with the   *)
(*     callback of its input stream as a thread of its own;                *)
(*   - the Encoder (src-tauri/src/audio/encode.rs);                        *)
(*   - the silence trimming of the Preprocessor                            *)
(*     (src-tauri/src/audio/preprocess.rs);                                *)
(*   - transcribe_audio, the loop over the chunks of a recording           *)
(*     (src-tauri/src/stt/mod.rs);                                         *)
(*   - dispatch_and_update (src-tauri/src/lib.rs) with its callers, the    *)
(*     hotkey (hotkey.rs) and the tray menu (tray.rs), the tray update and *)
(*     the notifications (notifications.rs), with several threads;         *)
(*   - paste_text (src-tauri/src/paste/mod.rs) with the ClipboardManager   *)
(*     (paste/clipboard.rs) and simulate_paste (paste/input.rs).           *)
(***************************************************************************)
EXTENDS Integers, Sequences, FiniteSets, TLC

(***************************************************************************)
(* Bounds of the model.                                                    *)
(***************************************************************************)
\* number of threads calling into SharedAppState concurrently
NumThreads == 2

Threads == 1..NumThreads

(***************************************************************************)
(* state.rs: AppState, AppEvent, RecordingMode                             *)
(***************************************************************************)
AppState == {"Idle", "Recording", "Transcribing", "Enhancing", "Pasting", "Error"}

RecordingMode == {"Toggle", "PushToTalk"}

\* the event kinds without payload
PlainKinds ==
    {"HotkeyPressed", "HotkeyDown", "HotkeyUp", "SilenceTimeout",
     "MaxDurationTimeout", "TranscriptionDone", "EnhancementDone",
     "PasteDone", "Cancel", "ErrorAcknowledged"}

\* payloads of Failed(String) used by the model
Reasons == {"mic disconnected", "test error"}

Ev(k) == [kind |-> k, reason |-> ""]

Failed(r) == [kind |-> "Failed", reason |-> r]

AppEvent == {Ev(k) : k \in PlainKinds} \cup {Failed(r) : r \in Reasons}

NoEvent == [kind |-> "none", reason |-> ""]

(***************************************************************************)
(* state.rs: transition.  Each arm of the match is a definition: the       *)
(* pattern and guard of the arm.  The arms are tried in the order of the   *)
(* source.                                                                 *)
(***************************************************************************)
\* faulty variant of ArmFailed: a failure in Idle is ignored
ArmFailed_IgnoredWhenIdle(st, event, mode) ==
    event.kind = "Failed" /\ st # "Idle"

\* if let AppEvent::Failed(reason) = event { return AppState::Error; }
ArmFailed(st, event, mode) ==
    event.kind = "Failed"

\* faulty variant of ArmToggleStart: the mode guard is missing
ArmToggleStart_AnyMode(st, event, mode) ==
    st = "Idle" /\ event.kind = "HotkeyPressed"

\* (Idle, HotkeyPressed) if *mode == Toggle => Recording
ArmToggleStart(st, event, mode) ==
    st = "Idle" /\ event.kind = "HotkeyPressed" /\ mode = "Toggle"

\* (Recording, HotkeyPressed) if *mode == Toggle => Transcribing
ArmToggleStop(st, event, mode) ==
    st = "Recording" /\ event.kind = "HotkeyPressed" /\ mode = "Toggle"

\* (Idle, HotkeyDown) if *mode == PushToTalk => Recording
ArmPttStart(st, event, mode) ==
    st = "Idle" /\ event.kind = "HotkeyDown" /\ mode = "PushToTalk"

\* (Recording, HotkeyUp) if *mode == PushToTalk => Transcribing
ArmPttStop(st, event, mode) ==
    st = "Recording" /\ event.kind = "HotkeyUp" /\ mode = "PushToTalk"

\* faulty variant of ArmSilenceTimeout: the mode guard is missing
ArmSilenceTimeout_AnyMode(st, event, mode) ==
    st = "Recording" /\ event.kind = "SilenceTimeout"

\* (Recording, SilenceTimeout) if *mode == Toggle => Transcribing
ArmSilenceTimeout(st, event, mode) ==
    st = "Recording" /\ event.kind = "SilenceTimeout" /\ mode = "Toggle"

\* (Recording, MaxDurationTimeout) => Transcribing
ArmMaxDuration(st, event, mode) ==
    st = "Recording" /\ event.kind = "MaxDurationTimeout"

\* faulty variant of ArmTranscriptionDone: also matches Recording
ArmTranscriptionDone_FromRecording(st, event, mode) ==
    st \in {"Recording", "Transcribing"} /\ event.kind = "TranscriptionDone"

\* (Transcribing, TranscriptionDone) => Enhancing
ArmTranscriptionDone(st, event, mode) ==
    st = "Transcribing" /\ event.kind = "TranscriptionDone"

\* (Enhancing, EnhancementDone) => Pasting
ArmEnhancementDone(st, event, mode) ==
    st = "Enhancing" /\ event.kind = "EnhancementDone"

\* faulty variant of ArmPasteDone: the arm is missing
ArmPasteDone_Never(st, event, mode) ==
    FALSE

\* (Pasting, PasteDone) => Idle
ArmPasteDone(st, event, mode) ==
    st = "Pasting" /\ event.kind = "PasteDone"

\* (Transcribing | Enhancing | Pasting, HotkeyPressed) => Idle
ArmCancelHotkey(st, event, mode) ==
    st \in {"Transcribing", "Enhancing", "Pasting"} /\ event.kind = "HotkeyPressed"

\* faulty variant of ArmCancel: Cancel also clears Error
ArmCancel_AlsoError(st, event, mode) ==
    st \in {"Transcribing", "Enhancing", "Pasting", "Error"} /\ event.kind = "Cancel"

\* (Transcribing | Enhancing | Pasting, Cancel) => Idle
ArmCancel(st, event, mode) ==
    st \in {"Transcribing", "Enhancing", "Pasting"} /\ event.kind = "Cancel"

\* (Error, ErrorAcknowledged) => Idle
ArmErrorAcknowledged(st, event, mode) ==
    st = "Error" /\ event.kind = "ErrorAcknowledged"

\* faulty variant of ArmIgnored: an ignored event resets the state
ArmIgnored_ResetsToIdle(st, event, mode) ==
    "Idle"

\* _ => { tracing::debug!(...); return state; }
ArmIgnored(st, event, mode) ==
    st

transition(st, event, mode) ==
    IF ArmFailed(st, event, mode) THEN "Error"
    ELSE IF ArmToggleStart(st, event, mode) THEN "Recording"
    ELSE IF ArmToggleStop(st, event, mode) THEN "Transcribing"
    ELSE IF ArmPttStart(st, event, mode) THEN "Recording"
    ELSE IF ArmPttStop(st, event, mode) THEN "Transcribing"
    ELSE IF ArmSilenceTimeout(st, event, mode) THEN "Transcribing"
    ELSE IF ArmMaxDuration(st, event, mode) THEN "Transcribing"
    ELSE IF ArmTranscriptionDone(st, event, mode) THEN "Enhancing"
    ELSE IF ArmEnhancementDone(st, event, mode) THEN "Pasting"
    ELSE IF ArmPasteDone(st, event, mode) THEN "Idle"
    ELSE IF ArmCancelHotkey(st, event, mode) THEN "Idle"
    ELSE IF ArmCancel(st, event, mode) THEN "Idle"
    ELSE IF ArmErrorAcknowledged(st, event, mode) THEN "Idle"
    ELSE ArmIgnored(st, event, mode)

(***************************************************************************)
(* Text.  A string is modelled by its run-length encoding: a sequence of   *)
(* runs [c |-> character, n |-> repetitions] in which adjacent runs have   *)
(* different characters and every n >= 1, so that two strings are equal    *)
(* exactly when their encodings are equal and strings of thousands of      *)
(* characters stay small.  The characters of the model: "a" and "b"        *)
(* (ASCII letters, 1 byte in UTF-8), their capitals "A" and "B", " "       *)
(* (ASCII space, whitespace) and "ya" (U+044F, a Cyrillic letter, 2 bytes  *)
(* in UTF-8).                                                              *)
(***************************************************************************)
Chars == {"a", "b", "A", "B", " ", "ya"}

Run(c, n) == [c |-> c, n |-> n]

\* char::is_whitespace
IsWhitespace(c) == c = " "

\* char::len_utf8
LenUtf8(c) == IF c = "ya" THEN 2 ELSE 1

EmptyText == <<>>

\* concatenation of two strings
Concat(a, b) ==
    IF a = <<>> THEN b
    ELSE IF b = <<>> THEN a
    ELSE IF a[Len(a)].c = b[1].c
        THEN SubSeq(a, 1, Len(a) - 1)
                 \o <<Run(b[1].c, a[Len(a)].n + b[1].n)>>
                 \o Tail(b)
    ELSE a \o b

\* k one-letter words of the letter c separated by single spaces
RECURSIVE Words(_, _)
Words(c, k) ==
    IF k = 0 THEN <<>>
    ELSE IF k = 1 THEN <<Run(c, 1)>>
    ELSE Words(c, k - 1) \o <<Run(" ", 1), Run(c, 1)>>

\* str::len: the length in bytes
RECURSIVE StrLen(_)
StrLen(t) ==
    IF t = <<>> THEN 0 ELSE t[1].n * LenUtf8(t[1].c) + StrLen(Tail(t))

\* str::trim: at most one leading and one trailing run is whitespace
Trim(t) ==
    LET from == IF t # <<>> /\ IsWhitespace(t[1].c) THEN 2 ELSE 1
        to   == IF t # <<>> /\ IsWhitespace(t[Len(t)].c) THEN Len(t) - 1 ELSE Len(t)
    IN  SubSeq(t, from, to)

\* text.chars().take(k).collect()
RECURSIVE TakeChars(_, _)
TakeChars(t, k) ==
    IF t = <<>> \/ k = 0 THEN <<>>
    ELSE IF t[1].n >= k THEN <<Run(t[1].c, k)>>
    ELSE <<t[1]>> \o TakeChars(Tail(t), k - t[1].n)

(***************************************************************************)
(* enhance/mod.rs: the Enhancement Validator.                              *)
(***************************************************************************)
MAX_ENHANCED_CHARS == 5000

\* MIN_WORD_RATIO = 0.3 and MAX_WORD_RATIO = 1.5 as fractions
MIN_WORD_RATIO_NUM == 3

MIN_WORD_RATIO_DEN == 10

MAX_WORD_RATIO_NUM == 3

MAX_WORD_RATIO_DEN == 2

\* text.split_whitespace().count(): the number of maximal runs of
\* non-whitespace characters
count_words(t) ==
    Cardinality({i \in DOMAIN t :
                    /\ ~IsWhitespace(t[i].c)
                    /\ (i = 1 \/ IsWhitespace(t[i - 1].c))})

Accepted(t) == [tag |-> "Ok", text |-> t]

Fallback(t) == [tag |-> "Fallback", text |-> t]

\* faulty variant of validate_enhancement: a ratio equal to MIN_WORD_RATIO
\* is rejected
validate_enhancement_BoundaryRejected(raw, enhanced) ==
    IF Trim(raw) = <<>> THEN Fallback(raw)
    ELSE
      LET enhanced_trimmed == Trim(enhanced)
          raw_words == count_words(raw)
          enhanced_words == count_words(enhanced_trimmed)
      IN  IF enhanced_trimmed = <<>> THEN Fallback(raw)
          ELSE IF /\ raw_words > 2
                  /\ enhanced_words * MIN_WORD_RATIO_DEN <= raw_words * MIN_WORD_RATIO_NUM
              THEN Fallback(raw)
          ELSE IF /\ raw_words > 2
                  /\ enhanced_words * MAX_WORD_RATIO_DEN > raw_words * MAX_WORD_RATIO_NUM
              THEN Fallback(raw)
          ELSE IF StrLen(enhanced_trimmed) > MAX_ENHANCED_CHARS
              THEN Accepted(TakeChars(enhanced_trimmed, MAX_ENHANCED_CHARS))
          ELSE Accepted(enhanced_trimmed)

\* The ratio enhanced_words as f64 / raw_words as f64 is compared with the
\* two constants by cross-multiplication: the quotient of two word counts is
\* rounded to the nearest f64, 0.3 is the f64 nearest to 3/10 and 1.5 is an
\* f64, so the comparisons of the code and of the fractions agree.
validate_enhancement(raw, enhanced) ==
    IF Trim(raw) = <<>> THEN Fallback(raw)
    ELSE
      LET enhanced_trimmed == Trim(enhanced)
          raw_words == count_words(raw)
          enhanced_words == count_words(enhanced_trimmed)
      IN  IF enhanced_trimmed = <<>> THEN Fallback(raw)
          ELSE IF /\ raw_words > 2
                  /\ enhanced_words * MIN_WORD_RATIO_DEN < raw_words * MIN_WORD_RATIO_NUM
              THEN Fallback(raw)
          ELSE IF /\ raw_words > 2
                  /\ enhanced_words * MAX_WORD_RATIO_DEN > raw_words * MAX_WORD_RATIO_NUM
              THEN Fallback(raw)
          ELSE IF StrLen(enhanced_trimmed) > MAX_ENHANCED_CHARS
              THEN Accepted(TakeChars(enhanced_trimmed, MAX_ENHANCED_CHARS))
          ELSE Accepted(enhanced_trimmed)

(***************************************************************************)
(* enhance/openai_responses.rs: one request and its Result.                *)
(***************************************************************************)
MAX_RATE_LIMIT_RETRIES == 5

MAX_BACKOFF_SEC == 16

\* the width of the u64 that is shifted to compute the backoff
U64_BITS == 64

\* the wait used when the Retry-After header is missing or not a number
DEFAULT_RETRY_AFTER == 5

MIN_RETRY_AFTER == 1

MAX_RETRY_AFTER == 60

\* values of Result<String, EnhanceError>
OkText(t) ==
    [tag |-> "Ok", text |-> t, err |-> "none", status |-> 0, retry_after_sec |-> 0]

Err(e) ==
    [tag |-> "Err", text |-> <<>>, err |-> e, status |-> 0, retry_after_sec |-> 0]

ApiError(status) ==
    [tag |-> "Err", text |-> <<>>, err |-> "ApiError", status |-> status,
     retry_after_sec |-> 0]

RateLimited(sec) ==
    [tag |-> "Err", text |-> <<>>, err |-> "RateLimited", status |-> 0,
     retry_after_sec |-> sec]

NoResult ==
    [tag |-> "none", text |-> <<>>, err |-> "none", status |-> 0, retry_after_sec |-> 0]

\* Ord::clamp
Clamp(x, lo, hi) == IF x < lo THEN lo ELSE IF x > hi THEN hi ELSE x

\* the Retry-After header: absent, not an unsigned number, or a number
HeaderAbsent == [tag |-> "absent", n |-> 0]

HeaderGarbage == [tag |-> "garbage", n |-> 0]

HeaderInt(n) == [tag |-> "int", n |-> n]

\* headers().get(RETRY_AFTER).and_then(to_str).and_then(parse::<u64>)
\*     .unwrap_or(5).clamp(1, 60)
retry_after(h) ==
    Clamp(IF h.tag = "int" THEN h.n ELSE DEFAULT_RETRY_AFTER,
          MIN_RETRY_AFTER, MAX_RETRY_AFTER)

\* the text fields of all content blocks of all output items, joined
RECURSIVE JoinBlocks(_)
JoinBlocks(blocks) ==
    IF blocks = <<>> THEN <<>> ELSE Concat(blocks[1], JoinBlocks(Tail(blocks)))

RECURSIVE JoinItems(_)
JoinItems(items) ==
    IF items = <<>> THEN <<>>
    ELSE Concat(JoinBlocks(items[1]), JoinItems(Tail(items)))

extract_output_text(output) ==
    LET text == JoinItems(output)
    IN  IF Trim(text) = <<>> THEN Err("InvalidResponse") ELSE OkText(text)

\* StatusCode::is_success
is_success(status) == 200 <= status /\ status <= 299

\* A response of the server: the request timed out, failed on the
\* network, or was answered by a status, a Retry-After header and a body
\* that is the JSON of a ResponsesResponse or not.
TimeoutResponse ==
    [kind |-> "timeout", status |-> 0, header |-> HeaderAbsent,
     json |-> FALSE, output |-> <<>>]

NetworkResponse ==
    [kind |-> "network", status |-> 0, header |-> HeaderAbsent,
     json |-> FALSE, output |-> <<>>]

Http(status, h, json, output) ==
    [kind |-> "http", status |-> status, header |-> h, json |-> json,
     output |-> output]

send_request(resp) ==
    IF resp.kind = "timeout" THEN Err("Timeout")
    ELSE IF resp.kind = "network" THEN Err("Network")
    ELSE IF resp.status = 401 THEN Err("AuthFailed")
    ELSE IF resp.status = 429 THEN RateLimited(retry_after(resp.header))
    ELSE IF ~is_success(resp.status) THEN ApiError(resp.status)
    ELSE IF ~resp.json THEN Err("InvalidResponse")
    ELSE extract_output_text(resp.output)

\* faulty variant of is_retryable: client errors are retried as well
is_retryable_ClientErrors(r) ==
    \/ r.err \in {"Network", "Timeout"}
    \/ r.err = "ApiError" /\ r.status >= 400

is_retryable(r) ==
    \/ r.err \in {"Network", "Timeout"}
    \/ r.err = "ApiError" /\ r.status >= 500

\* faulty variant of backoff_sec: the shifted value is not capped
backoff_sec_Uncapped(attempt) ==
    IF attempt >= U64_BITS THEN MAX_BACKOFF_SEC
    ELSE 2 ^ (IF attempt < 30 THEN attempt ELSE 30)

\* 1u64.checked_shl(attempt).unwrap_or(MAX_BACKOFF_SEC).min(MAX_BACKOFF_SEC)
\* checked_shl is None from a shift of 64 bits on; below that the single
\* bit stays inside the u64 and the result is 2^attempt.  The powers from
\* 2^30 on are represented by 2^30: the value is only compared with
\* MAX_BACKOFF_SEC.
backoff_sec(attempt) ==
    LET shifted == IF attempt >= U64_BITS THEN MAX_BACKOFF_SEC
                   ELSE 2 ^ (IF attempt < 30 THEN attempt ELSE 30)
    IN  IF shifted < MAX_BACKOFF_SEC THEN shifted ELSE MAX_BACKOFF_SEC

(***************************************************************************)
(* Inputs of the Enhancement Client.                                       *)
(***************************************************************************)
\* largest retry_count the client is constructed with
MaxRetryCount == 2

\* raw texts: empty, whitespace only, one, three and ten words
RawTexts ==
    {EmptyText, <<Run(" ", 2)>>, Words("a", 1), Words("a", 3), Words("a", 10)}

\* texts of the server: whitespace only, one to sixteen words, three words
\* in surrounding spaces, one word over the budget in bytes, and a word of
\* 2-byte letters over the budget in bytes only
ServerTexts ==
    {<<Run(" ", 3)>>, Words("b", 1), Words("b", 2), Words("b", 3),
     Words("b", 5), Words("b", 16),
     <<Run(" ", 1)>> \o Words("b", 3) \o <<Run(" ", 2)>>,
     <<Run("b", MAX_ENHANCED_CHARS + 1)>>,
     <<Run("ya", MAX_ENHANCED_CHARS)>>}

\* bodies: no output item, one block, two blocks of one item, two items
Outputs ==
    {<<>>}
    \cup {<< <<t>> >> : t \in ServerTexts}
    \cup {<< <<Words("b", 2), <<Run(" ", 1)>>, Words("b", 1)>> >>,
          << <<Words("a", 1)>>, <<Words("b", 1)>> >>}

Statuses == {200, 201, 302, 400, 401, 404, 429, 500, 503}

Headers == {HeaderAbsent, HeaderGarbage, HeaderInt(0), HeaderInt(3), HeaderInt(120)}

Responses ==
    {TimeoutResponse, NetworkResponse}
    \cup {Http(st, HeaderAbsent, FALSE, <<>>) : st \in Statuses}
    \cup {Http(429, h, FALSE, <<>>) : h \in Headers}
    \cup {Http(200, HeaderAbsent, TRUE, o) : o \in Outputs}

(***************************************************************************)
(* Values the state starts from.                                           *)
(***************************************************************************)
\* Option<Instant>: None and Some(at)
None == [some |-> FALSE, at |-> 0]

Some(at) == [some |-> TRUE, at |-> at]

\* no process_frame has returned yet
NoStatus == [tag |-> "none", duration |-> 0]

\* Option<CaptureFormat>: None and Some(CaptureFormat { sample_rate, channels })
NoFormat == [some |-> FALSE, sample_rate |-> 0, channels |-> 0]

CaptureFormat(sample_rate, channels) ==
    [some |-> TRUE, sample_rate |-> sample_rate, channels |-> channels]

\* a sample: the k-th the hardware delivered, to the callback of a stream
Sample(s, k) == [session |-> s, k |-> k]

NoSample == Sample(0, 0)

\* the fields of AudioCapture
Capture(st, buf, fmt, rec) ==
    [stream |-> st, buffer |-> buf, format |-> fmt, is_recording |-> rec]

\* Result<()> and Result<(Vec<f32>, CaptureFormat)>
CaptureOk(buf, fmt) == [tag |-> "Ok", err |-> "none", samples |-> buf, format |-> fmt]

CaptureErr(e) == [tag |-> "Err", err |-> e, samples |-> <<>>, format |-> NoFormat]

NoCaptureResult == [tag |-> "none", err |-> "none", samples |-> <<>>, format |-> NoFormat]

\* Result<Vec<u8>> of encode_ogg_opus: the bytes are given by their packets
EncodeOk(packets) == [tag |-> "Ok", err |-> "none", packets |-> packets]

EncodeErr(e) == [tag |-> "Err", err |-> e, packets |-> <<>>]

NoEncodeResult == [tag |-> "none", err |-> "none", packets |-> <<>>]

\* a take of audio: `lead` samples 0.0, then `tone` samples of amplitude 1.0,
\* then `trail` samples 0.0
Take(lead, tone, trail) == [lead |-> lead, tone |-> tone, trail |-> trail]

\* &samples[from..to]
Slice(from, to) == [from |-> from, to |-> to]

(***************************************************************************)
(* State of the model.                                                     *)
(***************************************************************************)
VARIABLES
    state,          \* SharedAppState.state: the value inside the mutex
    recording_mode, \* SharedAppState.recording_mode: the value inside the mutex
    state_lock,     \* owner of the state mutex, 0 when free
    mode_lock,      \* owner of the recording_mode mutex, 0 when free
    pc,             \* per thread: position inside the method it executes
    op,             \* per thread: the method it executes
    ev,             \* per thread: the event argument of dispatch
    arg,            \* per thread: the mode argument of set_recording_mode
    old,            \* per thread: local `old` of dispatch
    new,            \* per thread: local `new` of dispatch
    m,              \* per thread: the mode read through the guard
    val,            \* per thread: the value the method returned
    retry_count,    \* OpenAiEnhancer.retry_count
    e_pc,           \* position of the do_enhance call
    e_raw,          \* do_enhance: the argument raw_text
    retries_left,   \* do_enhance: local retries_left
    rate_limit_retries, \* do_enhance: local rate_limit_retries
    e_last,         \* do_enhance: the Result of the last send_request
    e_sleep,        \* do_enhance: seconds of the last sleep of the call
    e_requests,     \* do_enhance: requests sent by the call
    e_result,       \* do_enhance: the Result the call returned
    s_pc,           \* position of the do_transcribe call
    s_retries_left, \* do_transcribe: local retries_left
    s_rate_limit_retries, \* do_transcribe: local rate_limit_retries
    s_last,         \* do_transcribe: the Result of the last send_request
    s_sleep,        \* do_transcribe: seconds of the last sleep of the call
    s_requests,     \* do_transcribe: requests sent by the call
    s_result,       \* do_transcribe: the Result the call returned
    c_pc,           \* position of the chunk_audio call
    samples,        \* chunk_audio: the argument samples
    sample_rate,    \* chunk_audio: the argument sample_rate
    max_chunk_sec,  \* chunk_audio: the argument max_chunk_sec
    offset,         \* chunk_audio: local offset
    chunks,         \* chunk_audio: local chunks, the Vec<AudioChunk> returned
    d_pc,           \* position of the deduplicate_overlap_texts call
    texts,          \* deduplicate_overlap_texts: the argument texts
    result,         \* deduplicate_overlap_texts: local result, returned
    next_index,     \* deduplicate_overlap_texts: index in texts of `next`
    v_pc,           \* position of the validate_enhancement call
    v_raw,          \* validate_enhancement: the argument raw
    v_enhanced,     \* validate_enhancement: the argument enhanced
    v_result,       \* validate_enhancement: the ValidationResult returned
    silence_start,  \* SilenceDetector.silence_start
    threshold,      \* SilenceDetector.threshold
    clock,          \* the monotonic clock read by Instant::now()
    sd_status,      \* the Result of the last process_frame
    sd_log,         \* the calls made on the detector so far, in order
    stream,         \* AudioCapture.stream: TRUE when Some(stream)
    buffer,         \* AudioCapture.buffer: the Vec<f32> inside the mutex
    format,         \* AudioCapture.format
    is_recording,   \* AudioCapture.is_recording
    buffer_lock,    \* owner of the buffer mutex
    o_pc,           \* position of the owner inside start_recording / stop_recording
    o_call,         \* the method the owner called last
    o_calls,        \* calls the owner has made
    o_entry,        \* the capture as it was when the method was called
    o_format,       \* local CaptureFormat of the method in progress
    cap_result,     \* the Result of the last method that returned
    cb_pc,          \* position of the audio thread inside the input callback
    cb_data,        \* the sample the callback in progress was handed
    session,        \* streams started so far
    delivered,      \* samples the hardware has handed to callbacks
    appended,       \* samples the callback appended since the stream started
    returned,       \* samples returned by stop_recording so far
    n_pc,           \* position of the encode_ogg_opus call
    n_samples,      \* encode_ogg_opus: samples.len() of the argument samples
    n_rate,         \* encode_ogg_opus: the argument sample_rate
    out,            \* encode_ogg_opus: the packets written to out, in order
    granule_pos,    \* encode_ogg_opus: local granule_pos
    n_i,            \* encode_ogg_opus: frames taken from samples.chunks(FRAME_SIZE)
    n_result,       \* encode_ogg_opus: the Result returned
    t_pc,           \* position of the trim_silence call
    t_samples,      \* trim_silence: the argument samples
    t_rate,         \* trim_silence: the argument sample_rate
    trimmed,        \* trim_silence: local trimmed, a slice of samples
    t_result,       \* trim_silence: the slice of samples returned
    ta_pc,          \* position of the transcribe_audio call
    ta_samples,     \* transcribe_audio: the argument samples: empty, short or long
    ta_rate,        \* transcribe_audio: the argument sample_rate
    ta_chunks,      \* transcribe_audio: chunks.len()
    ta_i,           \* transcribe_audio: chunks of the loop already transcribed
    ta_texts,       \* transcribe_audio: local texts
    ta_result,      \* transcribe_audio: the Result returned
    ta_log,         \* history: the requests to the provider and their returns
    du_pc,          \* position of each thread in dispatch_and_update
    du_ev,          \* dispatch_and_update: the argument event of each thread
    du_old,         \* dispatch_and_update: local old of each thread
    du_new,         \* dispatch_and_update: local new of each thread
    has_api_key,    \* config::secrets::has_api_key()
    show_notifications,\* AppConfig.show_notifications
    tray,           \* the state the tray menu, icon and tooltip were last set for
    notified,       \* history: the notifications sent, with the event of the call
    started,        \* history: number of recordings started
    du_sess,        \* history: the running session in which each thread's call
                    \* began, 0 when no recording or pipeline was running
    seq,            \* history: number of changes of the state
    du_seq,         \* history: the change of the state each thread made
    tray_seq,       \* history: the change of the state the tray was last set for
    du_calls,       \* history: number of calls of dispatch_and_update
    p_pc,           \* paste_text: the statement the call is at
    p_text,         \* paste_text: the text to insert
    clipboard,      \* the content of the system clipboard
    clip_before,    \* history: the clipboard when paste_text was called
    saved,          \* ClipboardManager.saved
    p_attempt,      \* get_text_with_retry: attempt
    pressed,        \* ModifierGuard.pressed
    keys,           \* history: the key calls made to enigo, with their results
    sim_result,     \* the Result simulate_paste returned, "none" before
    paste_status    \* the PasteStatus paste_text returned, "none" before

\* the variables of SharedAppState and its callers
sm_vars == <<state, recording_mode, state_lock, mode_lock,
             pc, op, ev, arg, old, new, m, val>>

\* the variables of the Enhancement Client
enh_vars == <<retry_count, e_pc, e_raw, retries_left, rate_limit_retries,
              e_last, e_sleep, e_requests, e_result>>

\* the variables of the Transcription Client
stt_vars == <<s_pc, s_retries_left, s_rate_limit_retries, s_last, s_sleep,
              s_requests, s_result>>

\* the variables of the Chunker
chunk_vars == <<c_pc, samples, sample_rate, max_chunk_sec, offset, chunks>>

\* the variables of the Transcript Assembler
dedup_vars == <<d_pc, texts, result, next_index>>

\* the variables of the Enhancement Validator
val_vars == <<v_pc, v_raw, v_enhanced, v_result>>

\* the variables of the Silence Detector
sd_vars == <<silence_start, threshold, clock, sd_status, sd_log>>

\* the variables of the Audio Capture
cap_vars == <<stream, buffer, format, is_recording, buffer_lock,
              o_pc, o_call, o_calls, o_entry, o_format, cap_result,
              cb_pc, cb_data, session, delivered, appended, returned>>

\* the variables of the Encoder
enc_vars == <<n_pc, n_samples, n_rate, out, granule_pos, n_i, n_result>>

\* the variables of the Silence Trimmer
trim_vars == <<t_pc, t_samples, t_rate, trimmed, t_result>>

\* the variables of transcribe_audio
ta_vars == <<ta_pc, ta_samples, ta_rate, ta_chunks, ta_i, ta_texts,
             ta_result, ta_log>>

\* the variables of dispatch_and_update and its callers
du_vars == <<du_pc, du_ev, du_old, du_new, has_api_key,
             show_notifications, tray, notified, started, du_sess, seq,
             du_seq, tray_seq, du_calls>>

\* the variables of paste_text and simulate_paste
paste_vars == <<p_pc, p_text, clipboard, clip_before, saved, p_attempt,
                pressed, keys, sim_result, paste_status>>

vars == <<sm_vars, enh_vars, stt_vars, chunk_vars, dedup_vars, val_vars,
          sd_vars, cap_vars, enc_vars, trim_vars, ta_vars, du_vars,
          paste_vars>>

\* what a step of one component leaves alone: the variables of all others
outside_sm == <<enh_vars, stt_vars, chunk_vars, dedup_vars, val_vars,
                sd_vars, cap_vars, enc_vars, trim_vars, ta_vars, du_vars,
                paste_vars>>

outside_enh == <<sm_vars, stt_vars, chunk_vars, dedup_vars, val_vars,
                 sd_vars, cap_vars, enc_vars, trim_vars, ta_vars, du_vars,
                 paste_vars>>

outside_stt == <<sm_vars, enh_vars, chunk_vars, dedup_vars, val_vars,
                 sd_vars, cap_vars, enc_vars, trim_vars, ta_vars, du_vars,
                 paste_vars>>

outside_chunk == <<sm_vars, enh_vars, stt_vars, dedup_vars, val_vars,
                   sd_vars, cap_vars, enc_vars, trim_vars, ta_vars, du_vars,
                   paste_vars>>

outside_dedup == <<sm_vars, enh_vars, stt_vars, chunk_vars, val_vars,
                   sd_vars, cap_vars, enc_vars, trim_vars, ta_vars, du_vars,
                   paste_vars>>

outside_val == <<sm_vars, enh_vars, stt_vars, chunk_vars, dedup_vars,
                 sd_vars, cap_vars, enc_vars, trim_vars, ta_vars, du_vars,
                 paste_vars>>

outside_sd == <<sm_vars, enh_vars, stt_vars, chunk_vars, dedup_vars, val_vars,
                cap_vars, enc_vars, trim_vars, ta_vars, du_vars, paste_vars>>

outside_cap == <<sm_vars, enh_vars, stt_vars, chunk_vars, dedup_vars, val_vars,
                 sd_vars, enc_vars, trim_vars, ta_vars, du_vars, paste_vars>>

outside_enc == <<sm_vars, enh_vars, stt_vars, chunk_vars, dedup_vars, val_vars,
                 sd_vars, cap_vars, trim_vars, ta_vars, du_vars, paste_vars>>

outside_trim == <<sm_vars, enh_vars, stt_vars, chunk_vars, dedup_vars, val_vars,
                  sd_vars, cap_vars, enc_vars, ta_vars, du_vars, paste_vars>>

outside_ta == <<sm_vars, enh_vars, stt_vars, chunk_vars, dedup_vars, val_vars,
                sd_vars, cap_vars, enc_vars, trim_vars, du_vars, paste_vars>>

outside_du == <<sm_vars, enh_vars, stt_vars, chunk_vars, dedup_vars, val_vars,
                sd_vars, cap_vars, enc_vars, trim_vars, ta_vars, paste_vars>>

\* what the commit of dispatch_with_old inside dispatch_and_update leaves alone
\* besides the rest of SharedAppState
outside_dispatch == <<enh_vars, stt_vars, chunk_vars, dedup_vars, val_vars,
                      sd_vars, cap_vars, enc_vars, trim_vars, ta_vars,
                      paste_vars>>

outside_paste == <<sm_vars, enh_vars, stt_vars, chunk_vars, dedup_vars, val_vars,
                   sd_vars, cap_vars, enc_vars, trim_vars, ta_vars, du_vars>>

shared == <<state, recording_mode, state_lock, mode_lock>>

\* no do_enhance call is in progress
EnhanceIdle ==
    /\ e_pc = "idle"
    /\ e_raw = EmptyText
    /\ retries_left = 0
    /\ rate_limit_retries = 0
    /\ e_last = NoResult
    /\ e_sleep = 0
    /\ e_requests = 0
    /\ e_result = NoResult

\* no do_transcribe call is in progress
TranscribeIdle ==
    /\ s_pc = "idle"
    /\ s_retries_left = 0
    /\ s_rate_limit_retries = 0
    /\ s_last = NoResult
    /\ s_sleep = 0
    /\ s_requests = 0
    /\ s_result = NoResult

\* a recording of n samples without a quiet stretch
Uniform(n) == [len |-> n, period |-> 0, quiet |-> 0, phase |-> 0]

\* chunk_audio is not called
ChunkIdle ==
    /\ c_pc = "idle"
    /\ samples = Uniform(0)
    /\ sample_rate = 0
    /\ max_chunk_sec = 0
    /\ offset = 0
    /\ chunks = <<>>

\* deduplicate_overlap_texts is not called
DedupIdle ==
    /\ d_pc = "idle"
    /\ texts = <<>>
    /\ result = <<>>
    /\ next_index = 0

\* validate_enhancement is not called
ValidateIdle ==
    /\ v_pc = "idle"
    /\ v_raw = EmptyText
    /\ v_enhanced = EmptyText
    /\ v_result = NoResult

\* no SilenceDetector is in use
DetectorIdle ==
    /\ silence_start = None
    /\ threshold = 0
    /\ clock = 0
    /\ sd_status = NoStatus
    /\ sd_log = <<>>

\* AudioCapture::new(): no stream, an empty buffer, no format, not recording
CaptureIdle ==
    /\ stream = FALSE
    /\ buffer = <<>>
    /\ format = NoFormat
    /\ is_recording = FALSE
    /\ buffer_lock = "free"
    /\ o_pc = "idle"
    /\ o_call = "none"
    /\ o_calls = 0
    /\ o_entry = Capture(FALSE, <<>>, NoFormat, FALSE)
    /\ o_format = NoFormat
    /\ cap_result = NoCaptureResult
    /\ cb_pc = "idle"
    /\ cb_data = NoSample
    /\ session = 0
    /\ delivered = 0
    /\ appended = <<>>
    /\ returned = <<>>

\* encode_ogg_opus is not called
EncodeIdle ==
    /\ n_pc = "idle"
    /\ n_samples = 0
    /\ n_rate = 0
    /\ out = <<>>
    /\ granule_pos = 0
    /\ n_i = 0
    /\ n_result = NoEncodeResult

\* trim_silence is not called
TrimIdle ==
    /\ t_pc = "idle"
    /\ t_samples = Take(0, 0, 0)
    /\ t_rate = 0
    /\ trimmed = Slice(0, 0)
    /\ t_result = Slice(0, 0)

\* transcribe_audio is not called
TranscribeAudioIdle ==
    /\ ta_pc = "idle"
    /\ ta_samples = "empty"
    /\ ta_rate = 0
    /\ ta_chunks = 0
    /\ ta_i = 0
    /\ ta_texts = <<>>
    /\ ta_result = NoResult
    /\ ta_log = <<>>

\* dispatch_and_update is not called
DispatchIdle ==
    /\ du_pc = [t \in Threads |-> "idle"]
    /\ du_ev = [t \in Threads |-> NoEvent]
    /\ du_old = [t \in Threads |-> "none"]
    /\ du_new = [t \in Threads |-> "none"]
    /\ has_api_key = FALSE
    /\ show_notifications = FALSE
    /\ tray = "Idle"
    /\ notified = {}
    /\ started = 0
    /\ du_sess = [t \in Threads |-> 0]
    /\ seq = 0
    /\ du_seq = [t \in Threads |-> 0]
    /\ tray_seq = 0
    /\ du_calls = 0

\* no paste_text call has been made
PasteIdle ==
    /\ p_pc = "idle"
    /\ p_text = ""
    /\ clipboard = [kind |-> "Empty", text |-> ""]
    /\ clip_before = [kind |-> "Empty", text |-> ""]
    /\ saved = [kind |-> "NotSaved", text |-> ""]
    /\ p_attempt = 0
    /\ pressed = FALSE
    /\ keys = <<>>
    /\ sim_result = "none"
    /\ paste_status = "none"

\* SharedAppState::new(mode): the state is Idle, both mutexes are free
Init ==
    /\ retry_count = 0
    /\ EnhanceIdle
    /\ TranscribeIdle
    /\ ChunkIdle
    /\ DedupIdle
    /\ ValidateIdle
    /\ DetectorIdle
    /\ CaptureIdle
    /\ EncodeIdle
    /\ TrimIdle
    /\ TranscribeAudioIdle
    /\ DispatchIdle
    /\ PasteIdle
    /\ state = "Idle"
    /\ recording_mode \in RecordingMode
    /\ state_lock = 0
    /\ mode_lock = 0
    /\ pc = [t \in Threads |-> "idle"]
    /\ op = [t \in Threads |-> "none"]
    /\ ev = [t \in Threads |-> NoEvent]
    /\ arg = [t \in Threads |-> "none"]
    /\ old = [t \in Threads |-> "none"]
    /\ new = [t \in Threads |-> "none"]
    /\ m = [t \in Threads |-> "none"]
    /\ val = [t \in Threads |-> <<>>]

(***************************************************************************)
(* A thread calls a method of SharedAppState.  The first statement of each *)
(* method acquires a mutex; a caller blocked on that mutex is a thread     *)
(* whose call has not taken its first step yet, so the call and the first  *)
(* acquisition are one step, enabled when the mutex is free.               *)
(***************************************************************************)
Enter(t, method, first, e, a) ==
    /\ pc[t] = "idle"
    /\ pc' = [pc EXCEPT ![t] = first]
    /\ op' = [op EXCEPT ![t] = method]
    /\ ev' = [ev EXCEPT ![t] = e]
    /\ arg' = [arg EXCEPT ![t] = a]
    /\ old' = [old EXCEPT ![t] = "none"]
    /\ new' = [new EXCEPT ![t] = "none"]
    /\ m' = [m EXCEPT ![t] = "none"]
    /\ val' = [val EXCEPT ![t] = <<>>]

\* faulty variant of LockState: the mutex is taken even when it is held
LockState_NoExclusion(t) ==
    /\ state_lock' = t
    /\ UNCHANGED <<state, recording_mode, mode_lock>>

\* let mut state = self.state.lock()
LockState(t) ==
    /\ state_lock = 0
    /\ state_lock' = t
    /\ UNCHANGED <<state, recording_mode, mode_lock>>

\* self.recording_mode.lock() as the first statement of a method
LockModeFirst(t) ==
    /\ mode_lock = 0
    /\ mode_lock' = t
    /\ UNCHANGED <<state, recording_mode, state_lock>>

\* the method returns: the thread is free for a new call
Leave(t) ==
    /\ pc' = [pc EXCEPT ![t] = "idle"]
    /\ op' = [op EXCEPT ![t] = "none"]
    /\ ev' = [ev EXCEPT ![t] = NoEvent]
    /\ arg' = [arg EXCEPT ![t] = "none"]
    /\ old' = [old EXCEPT ![t] = "none"]
    /\ new' = [new EXCEPT ![t] = "none"]
    /\ m' = [m EXCEPT ![t] = "none"]
    /\ val' = [val EXCEPT ![t] = <<>>]

(***************************************************************************)
(* dispatch / dispatch_with_old, statement by statement.                   *)
(***************************************************************************)
CallDispatch(t, e) ==
    /\ UNCHANGED outside_sm
    /\ Enter(t, "dispatch", "lock_mode", e, "none")
    /\ LockState(t)

CallDispatchWithOld(t, e) ==
    /\ UNCHANGED outside_sm
    /\ Enter(t, "dispatch_with_old", "lock_mode", e, "none")
    /\ LockState(t)

\* let mode = self.recording_mode.lock()
LockMode(t) ==
    /\ UNCHANGED outside_sm
    /\ pc[t] = "lock_mode"
    /\ mode_lock = 0
    /\ mode_lock' = t
    /\ pc' = [pc EXCEPT ![t] = "read_old"]
    /\ UNCHANGED <<state, recording_mode, state_lock, op, ev, arg, old, new, m, val>>

\* let old = *state
ReadOld(t) ==
    /\ UNCHANGED outside_sm
    /\ pc[t] = "read_old"
    /\ old' = [old EXCEPT ![t] = state]
    /\ pc' = [pc EXCEPT ![t] = "compute"]
    /\ UNCHANGED <<shared, op, ev, arg, new, m, val>>

\* let new = transition(old, event, &mode)
Compute(t) ==
    /\ UNCHANGED outside_sm
    /\ pc[t] = "compute"
    /\ m' = [m EXCEPT ![t] = recording_mode]
    /\ new' = [new EXCEPT ![t] = transition(old[t], ev[t], recording_mode)]
    /\ pc' = [pc EXCEPT ![t] = "write"]
    /\ UNCHANGED <<shared, op, ev, arg, old, val>>

\* *state = new
WriteNew(t) ==
    /\ UNCHANGED outside_sm
    /\ pc[t] = "write"
    /\ state' = new[t]
    /\ pc' = [pc EXCEPT ![t] = "drop_mode"]
    /\ UNCHANGED <<recording_mode, state_lock, mode_lock, op, ev, arg, old, new, m, val>>

\* faulty variant of DropMode: the scope ends and the mode guard is kept
DropMode_KeepsGuard(t) ==
    /\ UNCHANGED outside_sm
    /\ pc[t] = "drop_mode"
    /\ pc' = [pc EXCEPT ![t] = "drop_state"]
    /\ UNCHANGED <<state, recording_mode, state_lock, mode_lock, op, ev, arg, old, new,
                   m, val>>

\* end of scope: the guards are dropped in reverse order of declaration
DropMode(t) ==
    /\ UNCHANGED outside_sm
    /\ pc[t] = "drop_mode"
    /\ mode_lock' = 0
    /\ pc' = [pc EXCEPT ![t] = "drop_state"]
    /\ UNCHANGED <<state, recording_mode, state_lock, op, ev, arg, old, new, m, val>>

\* the value the method is about to return: `new` from dispatch,
\* `(old, new)` from dispatch_with_old
Returned(t) ==
    IF op[t] = "dispatch" THEN <<new[t]>> ELSE <<old[t], new[t]>>

\* the state guard is dropped and the method returns
DropState(t) ==
    /\ UNCHANGED outside_sm
    /\ pc[t] = "drop_state"
    /\ state_lock' = 0
    /\ Leave(t)
    /\ UNCHANGED <<state, recording_mode, mode_lock>>

(***************************************************************************)
(* current_state: *self.state.lock()                                       *)
(***************************************************************************)
CallCurrentState(t) ==
    /\ UNCHANGED outside_sm
    /\ Enter(t, "current_state", "cs_read", NoEvent, "none")
    /\ LockState(t)

CsRead(t) ==
    /\ UNCHANGED outside_sm
    /\ pc[t] = "cs_read"
    /\ val' = [val EXCEPT ![t] = <<state>>]
    /\ pc' = [pc EXCEPT ![t] = "cs_drop"]
    /\ UNCHANGED <<shared, op, ev, arg, old, new, m>>

CsDrop(t) ==
    /\ UNCHANGED outside_sm
    /\ pc[t] = "cs_drop"
    /\ state_lock' = 0
    /\ Leave(t)
    /\ UNCHANGED <<state, recording_mode, mode_lock>>

(***************************************************************************)
(* recording_mode: self.recording_mode.lock().clone()                      *)
(***************************************************************************)
CallRecordingMode(t) ==
    /\ UNCHANGED outside_sm
    /\ Enter(t, "recording_mode", "rm_read", NoEvent, "none")
    /\ LockModeFirst(t)

RmRead(t) ==
    /\ UNCHANGED outside_sm
    /\ pc[t] = "rm_read"
    /\ val' = [val EXCEPT ![t] = <<recording_mode>>]
    /\ pc' = [pc EXCEPT ![t] = "rm_drop"]
    /\ UNCHANGED <<shared, op, ev, arg, old, new, m>>

RmDrop(t) ==
    /\ UNCHANGED outside_sm
    /\ pc[t] = "rm_drop"
    /\ mode_lock' = 0
    /\ Leave(t)
    /\ UNCHANGED <<state, recording_mode, state_lock>>

(***************************************************************************)
(* set_recording_mode: *self.recording_mode.lock() = mode                  *)
(***************************************************************************)
CallSetRecordingMode(t, mode) ==
    /\ UNCHANGED outside_sm
    /\ Enter(t, "set_recording_mode", "sm_write", NoEvent, mode)
    /\ LockModeFirst(t)

SmWrite(t) ==
    /\ UNCHANGED outside_sm
    /\ pc[t] = "sm_write"
    /\ recording_mode' = arg[t]
    /\ pc' = [pc EXCEPT ![t] = "sm_drop"]
    /\ UNCHANGED <<state, state_lock, mode_lock, op, ev, arg, old, new, m, val>>

SmDrop(t) ==
    /\ UNCHANGED outside_sm
    /\ pc[t] = "sm_drop"
    /\ mode_lock' = 0
    /\ Leave(t)
    /\ UNCHANGED <<state, recording_mode, state_lock>>

Next ==
    \/ \E t \in Threads, e \in AppEvent : CallDispatch(t, e)
    \/ \E t \in Threads, e \in AppEvent : CallDispatchWithOld(t, e)
    \/ \E t \in Threads : CallCurrentState(t)
    \/ \E t \in Threads : CallRecordingMode(t)
    \/ \E t \in Threads, mode \in RecordingMode : CallSetRecordingMode(t, mode)
    \/ \E t \in Threads : LockMode(t)
    \/ \E t \in Threads : ReadOld(t)
    \/ \E t \in Threads : Compute(t)
    \/ \E t \in Threads : WriteNew(t)
    \/ \E t \in Threads : DropMode(t)
    \/ \E t \in Threads : DropState(t)
    \/ \E t \in Threads : CsRead(t)
    \/ \E t \in Threads : CsDrop(t)
    \/ \E t \in Threads : RmRead(t)
    \/ \E t \in Threads : RmDrop(t)
    \/ \E t \in Threads : SmWrite(t)
    \/ \E t \in Threads : SmDrop(t)

Spec == Init /\ [][Next]_vars

(***************************************************************************)
(* enhance/openai_responses.rs: OpenAiEnhancer::do_enhance.  One action    *)
(* per arm of the match on the Result of send_request; the response of     *)
(* the server is the input of the step.  A sleep ends in a separate step.  *)
(***************************************************************************)
\* OpenAiEnhancer::new(.., retry_count)
InitEnhance ==
    /\ retry_count \in 0..MaxRetryCount
    /\ EnhanceIdle
    /\ TranscribeIdle
    /\ ChunkIdle
    /\ DedupIdle
    /\ ValidateIdle
    /\ DetectorIdle
    /\ CaptureIdle
    /\ EncodeIdle
    /\ TrimIdle
    /\ TranscribeAudioIdle
    /\ DispatchIdle
    /\ PasteIdle
    /\ state = "Idle"
    /\ recording_mode = "Toggle"
    /\ state_lock = 0
    /\ mode_lock = 0
    /\ pc = [t \in Threads |-> "idle"]
    /\ op = [t \in Threads |-> "none"]
    /\ ev = [t \in Threads |-> NoEvent]
    /\ arg = [t \in Threads |-> "none"]
    /\ old = [t \in Threads |-> "none"]
    /\ new = [t \in Threads |-> "none"]
    /\ m = [t \in Threads |-> "none"]
    /\ val = [t \in Threads |-> <<>>]

\* the call begins: retries_left = self.retry_count, rate_limit_retries = 0.
\* The stages of a dictation follow each other (state.rs: Transcribing, then
\* Enhancing): no transcription is in progress while a text is enhanced.
EnhanceCall(raw) ==
    /\ e_pc = "idle"
    /\ s_pc = "idle"
    /\ e_pc' = "send"
    /\ e_raw' = raw
    /\ retries_left' = retry_count
    /\ rate_limit_retries' = 0
    /\ e_last' = NoResult
    /\ e_sleep' = 0
    /\ e_requests' = 0
    /\ e_result' = NoResult
    /\ UNCHANGED <<retry_count, outside_enh>>

\* Ok(enhanced) => return Ok(text) of validate_enhancement(raw_text, &enhanced)
EnhanceOk(resp) ==
    /\ e_pc = "send"
    /\ send_request(resp).tag = "Ok"
    /\ e_last' = send_request(resp)
    /\ e_requests' = e_requests + 1
    /\ e_result' = OkText(validate_enhancement(e_raw, send_request(resp).text).text)
    /\ e_pc' = "done"
    /\ UNCHANGED <<retry_count, e_raw, retries_left, rate_limit_retries, e_sleep, outside_enh>>

\* Err(RateLimited { retry_after_sec }) => count, give up or sleep and continue
EnhanceRateLimited(resp) ==
    /\ e_pc = "send"
    /\ send_request(resp).err = "RateLimited"
    /\ e_last' = send_request(resp)
    /\ e_requests' = e_requests + 1
    /\ rate_limit_retries' = rate_limit_retries + 1
    /\ IF rate_limit_retries + 1 > MAX_RATE_LIMIT_RETRIES
         THEN /\ e_result' = OkText(e_raw)
              /\ e_pc' = "done"
              /\ UNCHANGED e_sleep
         ELSE /\ e_sleep' = send_request(resp).retry_after_sec
              /\ e_pc' = "sleep_rate_limit"
              /\ UNCHANGED e_result
    /\ UNCHANGED <<retry_count, e_raw, retries_left, outside_enh>>

\* faulty variant of EnhanceNonRetryable: the error is returned
EnhanceNonRetryable_Propagates(resp) ==
    /\ e_pc = "send"
    /\ send_request(resp).tag = "Err"
    /\ send_request(resp).err # "RateLimited"
    /\ ~is_retryable(send_request(resp))
    /\ e_last' = send_request(resp)
    /\ e_requests' = e_requests + 1
    /\ e_result' = send_request(resp)
    /\ e_pc' = "done"
    /\ UNCHANGED <<retry_count, e_raw, retries_left, rate_limit_retries, e_sleep, outside_enh>>

\* Err(e) if !Self::is_retryable(&e) => return Ok(raw_text.to_string())
EnhanceNonRetryable(resp) ==
    /\ e_pc = "send"
    /\ send_request(resp).tag = "Err"
    /\ send_request(resp).err # "RateLimited"
    /\ ~is_retryable(send_request(resp))
    /\ e_last' = send_request(resp)
    /\ e_requests' = e_requests + 1
    /\ e_result' = OkText(e_raw)
    /\ e_pc' = "done"
    /\ UNCHANGED <<retry_count, e_raw, retries_left, rate_limit_retries, e_sleep, outside_enh>>

\* Err(e) => give up when retries_left == 0, else sleep the backoff
EnhanceRetryable(resp) ==
    /\ e_pc = "send"
    /\ send_request(resp).tag = "Err"
    /\ send_request(resp).err # "RateLimited"
    /\ is_retryable(send_request(resp))
    /\ e_last' = send_request(resp)
    /\ e_requests' = e_requests + 1
    /\ IF retries_left = 0
         THEN /\ e_result' = OkText(e_raw)
              /\ e_pc' = "done"
              /\ UNCHANGED e_sleep
         ELSE /\ e_sleep' = backoff_sec(retry_count - retries_left)
              /\ e_pc' = "sleep_backoff"
              /\ UNCHANGED e_result
    /\ UNCHANGED <<retry_count, e_raw, retries_left, rate_limit_retries, outside_enh>>

\* faulty variant of EnhanceWakeRateLimit: the retry spends the retry budget
EnhanceWakeRateLimit_SpendsRetry ==
    /\ e_pc = "sleep_rate_limit"
    /\ e_pc' = "send"
    /\ retries_left' = IF retries_left > 0 THEN retries_left - 1 ELSE 0
    /\ UNCHANGED <<retry_count, e_raw, rate_limit_retries, e_last,
                   e_sleep, e_requests, e_result, outside_enh>>

\* tokio::time::sleep(retry_after_sec) is over: continue
EnhanceWakeRateLimit ==
    /\ e_pc = "sleep_rate_limit"
    /\ e_pc' = "send"
    /\ UNCHANGED <<retry_count, e_raw, retries_left, rate_limit_retries, e_last,
                   e_sleep, e_requests, e_result, outside_enh>>

\* tokio::time::sleep(backoff_sec) is over: retries_left -= 1
EnhanceWakeBackoff ==
    /\ e_pc = "sleep_backoff"
    /\ retries_left' = retries_left - 1
    /\ e_pc' = "send"
    /\ UNCHANGED <<retry_count, e_raw, rate_limit_retries, e_last,
                   e_sleep, e_requests, e_result, outside_enh>>

\* the caller has taken the Result; the client is free for the next call
EnhanceReturn ==
    /\ e_pc = "done"
    /\ e_pc' = "idle"
    /\ e_raw' = EmptyText
    /\ retries_left' = 0
    /\ rate_limit_retries' = 0
    /\ e_last' = NoResult
    /\ e_sleep' = 0
    /\ e_requests' = 0
    /\ e_result' = NoResult
    /\ UNCHANGED <<retry_count, outside_enh>>

NextEnhance ==
    \/ \E raw \in RawTexts : EnhanceCall(raw)
    \/ \E resp \in Responses : EnhanceOk(resp)
    \/ \E resp \in Responses : EnhanceRateLimited(resp)
    \/ \E resp \in Responses : EnhanceNonRetryable(resp)
    \/ \E resp \in Responses : EnhanceRetryable(resp)
    \/ EnhanceWakeRateLimit
    \/ EnhanceWakeBackoff
    \/ EnhanceReturn

SpecEnhance == InitEnhance /\ [][NextEnhance]_vars

(***************************************************************************)
(* stt/openai.rs: one request of the Transcription Client and its Result.  *)
(* The values of Result<String, SttError> are written with the records of  *)
(* OkText, Err, ApiError and RateLimited above; MAX_RATE_LIMIT_RETRIES and *)
(* MAX_BACKOFF_SEC have the same values in both clients.                   *)
(***************************************************************************)
\* A response to POST /v1/audio/transcriptions: a status, a Retry-After
\* header and a body that is the JSON of a TranscriptionResponse or not.
SttHttp(status, h, json, text) ==
    [kind |-> "http", status |-> status, header |-> h, json |-> json,
     text |-> text]

SttTimeout ==
    [kind |-> "timeout", status |-> 0, header |-> HeaderAbsent,
     json |-> FALSE, text |-> <<>>]

SttNetwork ==
    [kind |-> "network", status |-> 0, header |-> HeaderAbsent,
     json |-> FALSE, text |-> <<>>]

\* OpenAiSttClient::send_request
stt_send_request(resp) ==
    IF resp.kind = "timeout" THEN Err("Timeout")
    ELSE IF resp.kind = "network" THEN Err("Network")
    ELSE IF resp.status = 401 THEN Err("AuthFailed")
    ELSE IF resp.status = 429 THEN RateLimited(retry_after(resp.header))
    ELSE IF ~is_success(resp.status) THEN ApiError(resp.status)
    ELSE IF ~resp.json THEN Err("InvalidResponse")
    ELSE IF Trim(resp.text) = <<>> THEN Err("InvalidResponse")
    ELSE OkText(resp.text)

\* faulty variant of stt_is_retryable: an authentication failure is retried
stt_is_retryable_AuthRetried(r) ==
    \/ r.err \in {"Network", "Timeout", "AuthFailed"}
    \/ r.err = "ApiError" /\ r.status >= 500

\* OpenAiSttClient::is_retryable
stt_is_retryable(r) ==
    \/ r.err \in {"Network", "Timeout"}
    \/ r.err = "ApiError" /\ r.status >= 500

\* transcripts of the server: empty, whitespace only, one and three words,
\* a word in surrounding spaces
SttTexts ==
    {EmptyText, <<Run(" ", 2)>>, Words("a", 1), Words("a", 3),
     <<Run(" ", 1), Run("b", 2), Run(" ", 1)>>}

SttResponses ==
    {SttTimeout, SttNetwork}
    \cup {SttHttp(st, HeaderAbsent, FALSE, <<>>) : st \in Statuses}
    \cup {SttHttp(429, h, FALSE, <<>>) : h \in Headers}
    \cup {SttHttp(200, HeaderAbsent, TRUE, t) : t \in SttTexts}

(***************************************************************************)
(* stt/openai.rs: OpenAiSttClient::do_transcribe, one action per arm of    *)
(* the match on the Result of send_request.                                *)
(***************************************************************************)
\* the call begins: retries_left = self.retry_count, rate_limit_retries = 0
TranscribeCall ==
    /\ s_pc = "idle"
    /\ e_pc = "idle"
    /\ s_pc' = "send"
    /\ s_retries_left' = retry_count
    /\ s_rate_limit_retries' = 0
    /\ s_last' = NoResult
    /\ s_sleep' = 0
    /\ s_requests' = 0
    /\ s_result' = NoResult
    /\ UNCHANGED outside_stt

\* Ok(text) => return Ok(text)
TranscribeOk(resp) ==
    /\ s_pc = "send"
    /\ stt_send_request(resp).tag = "Ok"
    /\ s_last' = stt_send_request(resp)
    /\ s_requests' = s_requests + 1
    /\ s_result' = stt_send_request(resp)
    /\ s_pc' = "done"
    /\ UNCHANGED <<s_retries_left, s_rate_limit_retries, s_sleep, outside_stt>>

\* Err(RateLimited { retry_after_sec }) => count, give up or sleep and continue
TranscribeRateLimited(resp) ==
    /\ s_pc = "send"
    /\ stt_send_request(resp).err = "RateLimited"
    /\ s_last' = stt_send_request(resp)
    /\ s_requests' = s_requests + 1
    /\ s_rate_limit_retries' = s_rate_limit_retries + 1
    /\ IF s_rate_limit_retries + 1 > MAX_RATE_LIMIT_RETRIES
         THEN /\ s_result' = stt_send_request(resp)
              /\ s_pc' = "done"
              /\ UNCHANGED s_sleep
         ELSE /\ s_sleep' = stt_send_request(resp).retry_after_sec
              /\ s_pc' = "sleep_rate_limit"
              /\ UNCHANGED s_result
    /\ UNCHANGED <<s_retries_left, outside_stt>>

\* Err(e) if !Self::is_retryable(&e) => return Err(e)
TranscribeNonRetryable(resp) ==
    /\ s_pc = "send"
    /\ stt_send_request(resp).tag = "Err"
    /\ stt_send_request(resp).err # "RateLimited"
    /\ ~stt_is_retryable(stt_send_request(resp))
    /\ s_last' = stt_send_request(resp)
    /\ s_requests' = s_requests + 1
    /\ s_result' = stt_send_request(resp)
    /\ s_pc' = "done"
    /\ UNCHANGED <<s_retries_left, s_rate_limit_retries, s_sleep, outside_stt>>

\* faulty variant of TranscribeRetryable: the last retry is never made
TranscribeRetryable_GivesUpEarly(resp) ==
    /\ s_pc = "send"
    /\ stt_send_request(resp).tag = "Err"
    /\ stt_send_request(resp).err # "RateLimited"
    /\ stt_is_retryable(stt_send_request(resp))
    /\ s_last' = stt_send_request(resp)
    /\ s_requests' = s_requests + 1
    /\ IF s_retries_left <= 1
         THEN /\ s_result' = stt_send_request(resp)
              /\ s_pc' = "done"
              /\ UNCHANGED s_sleep
         ELSE /\ s_sleep' = backoff_sec(retry_count - s_retries_left)
              /\ s_pc' = "sleep_backoff"
              /\ UNCHANGED s_result
    /\ UNCHANGED <<s_retries_left, s_rate_limit_retries, outside_stt>>

\* Err(e) => return Err(e) when retries_left == 0, else sleep the backoff
TranscribeRetryable(resp) ==
    /\ s_pc = "send"
    /\ stt_send_request(resp).tag = "Err"
    /\ stt_send_request(resp).err # "RateLimited"
    /\ stt_is_retryable(stt_send_request(resp))
    /\ s_last' = stt_send_request(resp)
    /\ s_requests' = s_requests + 1
    /\ IF s_retries_left = 0
         THEN /\ s_result' = stt_send_request(resp)
              /\ s_pc' = "done"
              /\ UNCHANGED s_sleep
         ELSE /\ s_sleep' = backoff_sec(retry_count - s_retries_left)
              /\ s_pc' = "sleep_backoff"
              /\ UNCHANGED s_result
    /\ UNCHANGED <<s_retries_left, s_rate_limit_retries, outside_stt>>

\* faulty variant of TranscribeWakeRateLimit: the retry budget is refilled
TranscribeWakeRateLimit_RefillsBudget ==
    /\ s_pc = "sleep_rate_limit"
    /\ s_pc' = "send"
    /\ s_retries_left' = retry_count
    /\ UNCHANGED <<s_rate_limit_retries, s_last, s_sleep,
                   s_requests, s_result, outside_stt>>

\* tokio::time::sleep(retry_after_sec) is over: continue
TranscribeWakeRateLimit ==
    /\ s_pc = "sleep_rate_limit"
    /\ s_pc' = "send"
    /\ UNCHANGED <<s_retries_left, s_rate_limit_retries, s_last, s_sleep,
                   s_requests, s_result, outside_stt>>

\* tokio::time::sleep(backoff_sec) is over: retries_left -= 1
TranscribeWakeBackoff ==
    /\ s_pc = "sleep_backoff"
    /\ s_retries_left' = s_retries_left - 1
    /\ s_pc' = "send"
    /\ UNCHANGED <<s_rate_limit_retries, s_last, s_sleep, s_requests, s_result,
                   outside_stt>>

\* the caller has taken the Result; the client is free for the next call
TranscribeReturn ==
    /\ s_pc = "done"
    /\ s_pc' = "idle"
    /\ s_retries_left' = 0
    /\ s_rate_limit_retries' = 0
    /\ s_last' = NoResult
    /\ s_sleep' = 0
    /\ s_requests' = 0
    /\ s_result' = NoResult
    /\ UNCHANGED outside_stt

(***************************************************************************)
(* The two clients of one configuration: both are built by from_config     *)
(* with config.retry_count.                                                *)
(***************************************************************************)
NextClients ==
    \/ TranscribeCall
    \/ \E resp \in SttResponses : TranscribeOk(resp)
    \/ \E resp \in SttResponses : TranscribeRateLimited(resp)
    \/ \E resp \in SttResponses : TranscribeNonRetryable(resp)
    \/ \E resp \in SttResponses : TranscribeRetryable(resp)
    \/ TranscribeWakeRateLimit
    \/ TranscribeWakeBackoff
    \/ TranscribeReturn
    \/ \E raw \in RawTexts : EnhanceCall(raw)
    \/ \E resp \in Responses : EnhanceOk(resp)
    \/ \E resp \in Responses : EnhanceRateLimited(resp)
    \/ \E resp \in Responses : EnhanceNonRetryable(resp)
    \/ \E resp \in Responses : EnhanceRetryable(resp)
    \/ EnhanceWakeRateLimit
    \/ EnhanceWakeBackoff
    \/ EnhanceReturn

SpecClients == InitEnhance /\ [][NextClients]_vars

(***************************************************************************)
(* The two clients with long retry budgets: retry_count reaches the width  *)
(* of the shifted u64, the server answers with a timeout, a 429, a 400 or  *)
(* a transcript / an enhanced text.                                        *)
(***************************************************************************)
\* largest retry_count of the clients with long retry budgets
MaxBackoffRetryCount == 65

BackoffSttResponses ==
    {SttTimeout,
     SttHttp(429, HeaderAbsent, FALSE, <<>>),
     SttHttp(400, HeaderAbsent, FALSE, <<>>),
     SttHttp(200, HeaderAbsent, TRUE, Words("a", 1))}

BackoffResponses ==
    {TimeoutResponse,
     Http(429, HeaderAbsent, FALSE, <<>>),
     Http(400, HeaderAbsent, FALSE, <<>>),
     Http(200, HeaderAbsent, TRUE, << <<Words("b", 1)>> >>)}

\* OpenAiSttClient::from_config / OpenAiEnhancer::from_config
InitBackoff ==
    /\ retry_count \in 0..MaxBackoffRetryCount
    /\ EnhanceIdle
    /\ TranscribeIdle
    /\ ChunkIdle
    /\ DedupIdle
    /\ ValidateIdle
    /\ DetectorIdle
    /\ CaptureIdle
    /\ EncodeIdle
    /\ TrimIdle
    /\ TranscribeAudioIdle
    /\ DispatchIdle
    /\ PasteIdle
    /\ state = "Idle"
    /\ recording_mode = "Toggle"
    /\ state_lock = 0
    /\ mode_lock = 0
    /\ pc = [t \in Threads |-> "idle"]
    /\ op = [t \in Threads |-> "none"]
    /\ ev = [t \in Threads |-> NoEvent]
    /\ arg = [t \in Threads |-> "none"]
    /\ old = [t \in Threads |-> "none"]
    /\ new = [t \in Threads |-> "none"]
    /\ m = [t \in Threads |-> "none"]
    /\ val = [t \in Threads |-> <<>>]

NextBackoff ==
    \/ TranscribeCall
    \/ \E resp \in BackoffSttResponses : TranscribeOk(resp)
    \/ \E resp \in BackoffSttResponses : TranscribeRateLimited(resp)
    \/ \E resp \in BackoffSttResponses : TranscribeNonRetryable(resp)
    \/ \E resp \in BackoffSttResponses : TranscribeRetryable(resp)
    \/ TranscribeWakeRateLimit
    \/ TranscribeWakeBackoff
    \/ TranscribeReturn
    \/ EnhanceCall(Words("a", 1))
    \/ \E resp \in BackoffResponses : EnhanceOk(resp)
    \/ \E resp \in BackoffResponses : EnhanceRateLimited(resp)
    \/ \E resp \in BackoffResponses : EnhanceNonRetryable(resp)
    \/ \E resp \in BackoffResponses : EnhanceRetryable(resp)
    \/ EnhanceWakeRateLimit
    \/ EnhanceWakeBackoff
    \/ EnhanceReturn

SpecBackoff == InitBackoff /\ [][NextBackoff]_vars

(***************************************************************************)
(* Liveness of the clients: a request ends with a response, a timeout      *)
(* (every request carries read_timeout) or a connection error, and a sleep *)
(* ends; so the next step of a call in progress is eventually taken.       *)
(***************************************************************************)
TranscribeStep ==
    \/ \E resp \in SttResponses : TranscribeOk(resp)
    \/ \E resp \in SttResponses : TranscribeRateLimited(resp)
    \/ \E resp \in SttResponses : TranscribeNonRetryable(resp)
    \/ \E resp \in SttResponses : TranscribeRetryable(resp)
    \/ TranscribeWakeRateLimit
    \/ TranscribeWakeBackoff

EnhanceStep ==
    \/ \E resp \in Responses : EnhanceOk(resp)
    \/ \E resp \in Responses : EnhanceRateLimited(resp)
    \/ \E resp \in Responses : EnhanceNonRetryable(resp)
    \/ \E resp \in Responses : EnhanceRetryable(resp)
    \/ EnhanceWakeRateLimit
    \/ EnhanceWakeBackoff

SpecClientsLive ==
    /\ InitEnhance
    /\ [][NextClients]_vars
    /\ WF_vars(TranscribeStep)
    /\ WF_vars(EnhanceStep)

(***************************************************************************)
(* stt/mod.rs: the Chunker.  A recording is represented by its length and  *)
(* by where it is quiet: a sample has amplitude 1 except in the quiet      *)
(* stretches, where it has amplitude 0; the quiet stretches are `quiet`    *)
(* samples long and repeat every `period` samples (period 0: none).  An    *)
(* AudioChunk is represented by the range of the samples it copies.        *)
(***************************************************************************)
\* CHUNK_OVERLAP_SEC = 1.5 = 3 / 2
CHUNK_OVERLAP_SEC_NUM == 3

CHUNK_OVERLAP_SEC_DEN == 2

MIN_CHUNK_SEC == 5

QUIET_SEARCH_START_PERCENT == 70

RMS_WINDOW_MS == 20

\* usize::saturating_sub
SatSub(a, b) == IF a < b THEN 0 ELSE a - b

\* AudioChunk { samples: samples[from..to].to_vec() }
AudioChunk(from, to) == [start |-> from, end |-> to]

\* the amplitude of samples[i] is 1
Loud(a, i) == ~(a.period > 0 /\ ((i + a.phase) % a.period) < a.quiet)

\* window.iter().map(|s| s * s).sum() of the window [from, from + window_size);
\* all windows of a call have the same length, so that the energies
\* (sum / window.len()) compare as the sums do
WindowEnergy(a, from, window_size) ==
    Cardinality({i \in from..(from + window_size - 1) : Loud(a, i)})

\* the for loop of find_quiet_split_point over the windows number lo..hi
\* (window n starts at n * step): the energy and the start of the first
\* window of least energy, which is what the loop leaves in min_energy and
\* min_pos - window_size / 2 (it replaces the minimum only by a strictly
\* smaller energy).  The range is halved instead of walked to keep the
\* evaluation shallow.
RECURSIVE ScanWindows(_, _, _, _, _)
ScanWindows(a, seg, window_size, lo, hi) ==
    IF lo = hi
      THEN [energy |-> WindowEnergy(a, seg + lo * (window_size \div 2), window_size),
            start |-> lo * (window_size \div 2)]
      ELSE LET mid == (lo + hi) \div 2
               first == ScanWindows(a, seg, window_size, lo, mid)
               second == ScanWindows(a, seg, window_size, mid + 1, hi)
           IN  IF second.energy < first.energy THEN second ELSE first

\* find_quiet_split_point(&samples[seg..seg + seg_len], sample_rate):
\* None, Some(min_pos), or the panic of step_by(0).  The windows start at
\* 0, step, 2 * step, ... below seg_len.saturating_sub(window_size); without
\* any window min_pos stays 0.
find_quiet_split_point(a, seg, seg_len, rate) ==
    LET window_size == (rate * RMS_WINDOW_MS) \div 1000
        step == window_size \div 2
        limit == SatSub(seg_len, window_size)
    IN  IF seg_len < window_size * 2 THEN [tag |-> "None", pos |-> 0]
        ELSE IF step = 0 THEN [tag |-> "panic", pos |-> 0]
        ELSE IF limit = 0 THEN [tag |-> "Some", pos |-> 0]
        ELSE [tag |-> "Some",
              pos |-> ScanWindows(a, seg, window_size, 0,
                                  (limit - 1) \div step).start
                      + window_size \div 2]

\* max_chunk_sec as usize * sample_rate as usize
max_chunk_samples == max_chunk_sec * sample_rate

\* faulty variant of overlap_samples: the next chunk starts after the cut
overlap_samples_Gap == 0 - sample_rate

\* (CHUNK_OVERLAP_SEC * sample_rate as f32) as usize
overlap_samples == (CHUNK_OVERLAP_SEC_NUM * sample_rate) \div CHUNK_OVERLAP_SEC_DEN

\* (MIN_CHUNK_SEC * sample_rate as f32) as usize
min_chunk_samples == MIN_CHUNK_SEC * sample_rate

\* the split of the window that begins at offset
search_start == offset + (max_chunk_samples * QUIET_SEARCH_START_PERCENT) \div 100

search_end == offset + max_chunk_samples

quiet_point ==
    find_quiet_split_point(samples, search_start, search_end - search_start,
                           sample_rate)

split_point ==
    IF quiet_point.tag = "Some" THEN search_start + quiet_point.pos
    ELSE offset + max_chunk_samples

actual_end ==
    IF samples.len - split_point < min_chunk_samples THEN samples.len
    ELSE split_point

(***************************************************************************)
(* Inputs of the Chunker.                                                  *)
(***************************************************************************)
\* longest recording, in units of 100 samples
MaxAudioSec == 20

\* largest max_chunk_sec
MaxChunkSec == 8

\* chunks after which a call that is still splitting is followed no further
MaxChunks == 40

\* 0, a rate whose 20 ms window is a single sample, and a rate whose
\* 20 ms window is two samples
SampleRates == {0, 50, 100}

\* quiet stretches: none, and 6 samples every 130 or every 90 samples
Recordings ==
    {Uniform(50 * k) : k \in 0..(2 * MaxAudioSec)}
    \cup {[len |-> 50 * k + 1, period |-> 130, quiet |-> 6, phase |-> 0] :
            k \in 0..(2 * MaxAudioSec)}
    \cup {[len |-> 100 * k, period |-> 90, quiet |-> 6, phase |-> 40] :
            k \in 0..MaxAudioSec}

(***************************************************************************)
(* stt/mod.rs: chunk_audio, one action per return of the function and per  *)
(* iteration of its loop.                                                  *)
(***************************************************************************)
InitChunk ==
    /\ c_pc = "call"
    /\ samples \in Recordings
    /\ sample_rate \in SampleRates
    /\ max_chunk_sec \in 0..MaxChunkSec
    /\ offset = 0
    /\ chunks = <<>>
    /\ retry_count = 0
    /\ EnhanceIdle
    /\ TranscribeIdle
    /\ DedupIdle
    /\ ValidateIdle
    /\ DetectorIdle
    /\ CaptureIdle
    /\ EncodeIdle
    /\ TrimIdle
    /\ TranscribeAudioIdle
    /\ DispatchIdle
    /\ PasteIdle
    /\ state = "Idle"
    /\ recording_mode = "Toggle"
    /\ state_lock = 0
    /\ mode_lock = 0
    /\ pc = [t \in Threads |-> "idle"]
    /\ op = [t \in Threads |-> "none"]
    /\ ev = [t \in Threads |-> NoEvent]
    /\ arg = [t \in Threads |-> "none"]
    /\ old = [t \in Threads |-> "none"]
    /\ new = [t \in Threads |-> "none"]
    /\ m = [t \in Threads |-> "none"]
    /\ val = [t \in Threads |-> <<>>]

\* if sample_rate == 0 || max_chunk_sec == 0: the whole input as one chunk
ChunkInvalidParams ==
    /\ c_pc = "call"
    /\ sample_rate = 0 \/ max_chunk_sec = 0
    /\ chunks' = <<AudioChunk(0, samples.len)>>
    /\ c_pc' = "done"
    /\ UNCHANGED <<samples, sample_rate, max_chunk_sec, offset, outside_chunk>>

\* if samples.len() <= max_chunk_samples: the whole input as one chunk
ChunkFits ==
    /\ c_pc = "call"
    /\ ~(sample_rate = 0 \/ max_chunk_sec = 0)
    /\ samples.len <= max_chunk_samples
    /\ chunks' = <<AudioChunk(0, samples.len)>>
    /\ c_pc' = "done"
    /\ UNCHANGED <<samples, sample_rate, max_chunk_sec, offset, outside_chunk>>

\* let mut chunks = Vec::new(); let mut offset = 0;
ChunkEnterLoop ==
    /\ c_pc = "call"
    /\ ~(sample_rate = 0 \/ max_chunk_sec = 0)
    /\ samples.len > max_chunk_samples
    /\ chunks' = <<>>
    /\ offset' = 0
    /\ c_pc' = "loop"
    /\ UNCHANGED <<samples, sample_rate, max_chunk_sec, outside_chunk>>

\* an iteration with remaining <= max_chunk_samples: the rest is the last chunk
ChunkRest ==
    /\ c_pc = "loop"
    /\ offset < samples.len
    /\ samples.len - offset <= max_chunk_samples
    /\ chunks' = Append(chunks, AudioChunk(offset, samples.len))
    /\ c_pc' = "done"
    /\ UNCHANGED <<samples, sample_rate, max_chunk_sec, offset, outside_chunk>>

\* an iteration that cuts a chunk at the split point
ChunkSplit ==
    /\ c_pc = "loop"
    /\ offset < samples.len
    /\ samples.len - offset > max_chunk_samples
    /\ quiet_point.tag # "panic"
    /\ Len(chunks) < MaxChunks
    /\ chunks' = Append(chunks, AudioChunk(offset, actual_end))
    /\ IF actual_end >= samples.len
         THEN c_pc' = "done" /\ UNCHANGED offset
         ELSE c_pc' = "loop" /\ offset' = SatSub(actual_end, overlap_samples)
    /\ UNCHANGED <<samples, sample_rate, max_chunk_sec, outside_chunk>>

\* an iteration in which find_quiet_split_point panics
ChunkPanic ==
    /\ c_pc = "loop"
    /\ offset < samples.len
    /\ samples.len - offset > max_chunk_samples
    /\ quiet_point.tag = "panic"
    /\ c_pc' = "panic"
    /\ UNCHANGED <<samples, sample_rate, max_chunk_sec, offset, chunks,
                   outside_chunk>>

NextChunk ==
    \/ ChunkInvalidParams
    \/ ChunkFits
    \/ ChunkEnterLoop
    \/ ChunkRest
    \/ ChunkSplit
    \/ ChunkPanic

SpecChunk == InitChunk /\ [][NextChunk]_vars

(***************************************************************************)
(* stt/mod.rs: the Transcript Assembler.  A word is the string between two *)
(* stretches of whitespace.                                                *)
(***************************************************************************)
\* char::to_lowercase
Lower(c) == IF c = "A" THEN "a" ELSE IF c = "B" THEN "b" ELSE c

\* str::to_lowercase
RECURSIVE to_lowercase(_)
to_lowercase(t) ==
    IF t = <<>> THEN <<>>
    ELSE Concat(<<Run(Lower(t[1].c), t[1].n)>>, to_lowercase(Tail(t)))

\* str::split_whitespace of the string that continues the word `word` with t
RECURSIVE SplitFrom(_, _)
SplitFrom(t, word) ==
    IF t = <<>> THEN (IF word = <<>> THEN <<>> ELSE <<word>>)
    ELSE IF IsWhitespace(t[1].c)
        THEN (IF word = <<>> THEN <<>> ELSE <<word>>) \o SplitFrom(Tail(t), <<>>)
    ELSE SplitFrom(Tail(t), Append(word, t[1]))

\* str::split_whitespace().collect::<Vec<_>>()
split_whitespace(t) == SplitFrom(t, <<>>)

\* [&str]::join(" ")
RECURSIVE JoinWords(_)
JoinWords(ws) ==
    IF ws = <<>> THEN <<>>
    ELSE IF Len(ws) = 1 THEN ws[1]
    ELSE Concat(Concat(ws[1], <<Run(" ", 1)>>), JoinWords(Tail(ws)))

\* Iterator::skip(n)
Skip(ws, n) == SubSeq(ws, n + 1, Len(ws))

\* faulty variant of TailMatchesHead: the words are compared as they are
TailMatchesHead_CaseSensitive(prev_words, next_words, n) ==
    \A i \in 1..n : prev_words[Len(prev_words) - n + i] = next_words[i]

\* prev_tail.iter().zip(next_head.iter())
\*     .all(|(a, b)| a.to_lowercase() == b.to_lowercase())
TailMatchesHead(prev_words, next_words, n) ==
    \A i \in 1..n :
        to_lowercase(prev_words[Len(prev_words) - n + i]) = to_lowercase(next_words[i])

\* the loop `for n in (2..=max_check).rev()` of find_text_overlap from n down
RECURSIVE OverlapFrom(_, _, _)
OverlapFrom(prev_words, next_words, n) ==
    IF n < 2 THEN 0
    ELSE IF TailMatchesHead(prev_words, next_words, n) THEN n
    ELSE OverlapFrom(prev_words, next_words, n - 1)

\* usize::min
Min(a, b) == IF a < b THEN a ELSE b

find_text_overlap(prev, next) ==
    LET prev_words == split_whitespace(prev)
        next_words == split_whitespace(next)
        max_check == Min(Min(Len(prev_words), Len(next_words)), 5)
    IN  OverlapFrom(prev_words, next_words, max_check)

(***************************************************************************)
(* Inputs of the Transcript Assembler.                                     *)
(***************************************************************************)
\* longest list of transcripts
MaxTexts == 3

\* a word of the letters cs
Word(cs) == [i \in 1..Len(cs) |-> Run(cs[i], 1)]

\* transcripts: six times the same word; "a b"; "B a b"; one word; "Ab a"
\* with two spaces between the words; "ab a b"; "b a B b"
Transcripts ==
    {Words("a", 6),
     JoinWords(<<Word(<<"a">>), Word(<<"b">>)>>),
     JoinWords(<<Word(<<"B">>), Word(<<"a">>), Word(<<"b">>)>>),
     Word(<<"b">>),
     <<Run("A", 1), Run("b", 1), Run(" ", 2), Run("a", 1)>>,
     JoinWords(<<Word(<<"a", "b">>), Word(<<"a">>), Word(<<"b">>)>>),
     JoinWords(<<Word(<<"b">>), Word(<<"a">>), Word(<<"B">>), Word(<<"b">>)>>)}

\* the lists of at most MaxTexts transcripts
TextLists == UNION {[1..k -> Transcripts] : k \in 0..MaxTexts}

(***************************************************************************)
(* stt/mod.rs: deduplicate_overlap_texts, one action per return and per    *)
(* branch of the loop body.                                                *)
(***************************************************************************)
InitDedup ==
    /\ d_pc = "call"
    /\ texts \in TextLists
    /\ result = <<>>
    /\ next_index = 0
    /\ retry_count = 0
    /\ EnhanceIdle
    /\ TranscribeIdle
    /\ ChunkIdle
    /\ ValidateIdle
    /\ DetectorIdle
    /\ CaptureIdle
    /\ EncodeIdle
    /\ TrimIdle
    /\ TranscribeAudioIdle
    /\ DispatchIdle
    /\ PasteIdle
    /\ state = "Idle"
    /\ recording_mode = "Toggle"
    /\ state_lock = 0
    /\ mode_lock = 0
    /\ pc = [t \in Threads |-> "idle"]
    /\ op = [t \in Threads |-> "none"]
    /\ ev = [t \in Threads |-> NoEvent]
    /\ arg = [t \in Threads |-> "none"]
    /\ old = [t \in Threads |-> "none"]
    /\ new = [t \in Threads |-> "none"]
    /\ m = [t \in Threads |-> "none"]
    /\ val = [t \in Threads |-> <<>>]

\* if texts.is_empty() { return String::new(); }
DedupEmpty ==
    /\ d_pc = "call"
    /\ texts = <<>>
    /\ result' = <<>>
    /\ d_pc' = "done"
    /\ UNCHANGED <<texts, next_index, outside_dedup>>

\* if texts.len() == 1 { return texts[0].clone(); }
DedupSingle ==
    /\ d_pc = "call"
    /\ Len(texts) = 1
    /\ result' = texts[1]
    /\ d_pc' = "done"
    /\ UNCHANGED <<texts, next_index, outside_dedup>>

\* let mut result = texts[0].clone(); the loop begins at texts[1]
DedupFirst ==
    /\ d_pc = "call"
    /\ Len(texts) > 1
    /\ result' = texts[1]
    /\ next_index' = 2
    /\ d_pc' = "loop"
    /\ UNCHANGED <<texts, outside_dedup>>

\* overlap_words > 0: the words after the overlap, joined by spaces, are
\* appended after a space, unless there are none
DedupOverlap ==
    /\ d_pc = "loop"
    /\ next_index <= Len(texts)
    /\ find_text_overlap(result, texts[next_index]) > 0
    /\ LET overlap_words == find_text_overlap(result, texts[next_index])
           remaining == JoinWords(Skip(split_whitespace(texts[next_index]),
                                       overlap_words))
       IN  result' = IF remaining # <<>>
                       THEN Concat(Concat(result, <<Run(" ", 1)>>), remaining)
                       ELSE result
    /\ next_index' = next_index + 1
    /\ UNCHANGED <<d_pc, texts, outside_dedup>>

\* overlap_words == 0: result.push(' '); result.push_str(next)
DedupNoOverlap ==
    /\ d_pc = "loop"
    /\ next_index <= Len(texts)
    /\ find_text_overlap(result, texts[next_index]) = 0
    /\ result' = Concat(Concat(result, <<Run(" ", 1)>>), texts[next_index])
    /\ next_index' = next_index + 1
    /\ UNCHANGED <<d_pc, texts, outside_dedup>>

\* the loop is over: result is returned
DedupReturn ==
    /\ d_pc = "loop"
    /\ next_index > Len(texts)
    /\ d_pc' = "done"
    /\ UNCHANGED <<texts, result, next_index, outside_dedup>>

NextDedup ==
    \/ DedupEmpty
    \/ DedupSingle
    \/ DedupFirst
    \/ DedupOverlap
    \/ DedupNoOverlap
    \/ DedupReturn

SpecDedup == InitDedup /\ [][NextDedup]_vars

(***************************************************************************)
(* enhance/mod.rs: validate_enhancement applied to a raw text and a        *)
(* candidate.                                                              *)
(***************************************************************************)
\* most words of a raw text
MaxRawWords == 10

\* most words of a candidate
MaxCandidateWords == 16

\* a text between two spaces and one space
Padded(t) == <<Run(" ", 2)>> \o t \o <<Run(" ", 1)>>

\* raw texts: zero to MaxRawWords words, whitespace only, words in spaces
ValidatorRaws ==
    {Words("a", k) : k \in 0..MaxRawWords}
    \cup {<<Run(" ", 2)>>}
    \cup {Padded(Words("a", k)) : k \in 1..3}

\* candidates about the budget: one word of MAX_ENHANCED_CHARS bytes, of
\* one byte more, 2-byte letters of MAX_ENHANCED_CHARS bytes, of one letter
\* more, of MAX_ENHANCED_CHARS letters, and two words over the budget
LongCandidates ==
    {<<Run("b", MAX_ENHANCED_CHARS)>>,
     <<Run("b", MAX_ENHANCED_CHARS + 1)>>,
     <<Run("ya", MAX_ENHANCED_CHARS \div 2)>>,
     <<Run("ya", MAX_ENHANCED_CHARS \div 2 + 1)>>,
     <<Run("ya", MAX_ENHANCED_CHARS)>>,
     <<Run("b", 3000), Run(" ", 1), Run("b", 3000)>>,
     Padded(<<Run("b", MAX_ENHANCED_CHARS)>>)}

\* candidates: zero to MaxCandidateWords words, whitespace only, words in
\* spaces, and the candidates about the budget
ValidatorCandidates ==
    {Words("b", k) : k \in 0..MaxCandidateWords}
    \cup {<<Run(" ", 3)>>}
    \cup {Padded(Words("b", k)) : k \in 1..3}
    \cup LongCandidates

InitValidate ==
    /\ v_pc = "call"
    /\ v_raw \in ValidatorRaws
    /\ v_enhanced \in ValidatorCandidates
    /\ v_result = NoResult
    /\ retry_count = 0
    /\ EnhanceIdle
    /\ TranscribeIdle
    /\ ChunkIdle
    /\ DedupIdle
    /\ DetectorIdle
    /\ CaptureIdle
    /\ EncodeIdle
    /\ TrimIdle
    /\ TranscribeAudioIdle
    /\ DispatchIdle
    /\ PasteIdle
    /\ state = "Idle"
    /\ recording_mode = "Toggle"
    /\ state_lock = 0
    /\ mode_lock = 0
    /\ pc = [t \in Threads |-> "idle"]
    /\ op = [t \in Threads |-> "none"]
    /\ ev = [t \in Threads |-> NoEvent]
    /\ arg = [t \in Threads |-> "none"]
    /\ old = [t \in Threads |-> "none"]
    /\ new = [t \in Threads |-> "none"]
    /\ m = [t \in Threads |-> "none"]
    /\ val = [t \in Threads |-> <<>>]

\* validate_enhancement(raw, enhanced) returns
Validate ==
    /\ v_pc = "call"
    /\ v_result' = validate_enhancement(v_raw, v_enhanced)
    /\ v_pc' = "done"
    /\ UNCHANGED <<v_raw, v_enhanced, outside_val>>

NextValidate ==
    \/ Validate

SpecValidate == InitValidate /\ [][NextValidate]_vars

(***************************************************************************)
(* vad/mod.rs: SilenceDetector.  Time is counted in whole units of the     *)
(* monotonic clock; the answer of the VoiceDetector to a frame is the      *)
(* input of process_frame.                                                 *)
(***************************************************************************)
\* const DEFAULT_THRESHOLD: f32 = 10.0
DEFAULT_THRESHOLD == 10

\* largest valid threshold_sec a detector is constructed with
MaxThresholdSec == 2

\* latest instant of the clock
MaxClock == 4

\* most calls made on one detector
MaxCalls == 4

\* SilenceStatus
Speech == [tag |-> "Speech", duration |-> 0]

Silence(d) == [tag |-> "Silence", duration |-> d]

SilenceTimeout == [tag |-> "SilenceTimeout", duration |-> 0]

\* Err(VadError) of the VoiceDetector, passed on by `?`
VadErr == [tag |-> "Err", duration |-> 0]

\* an f32: a number of seconds, NaN or an infinity
Secs(n) == [class |-> "number", sec |-> n]

NaN == [class |-> "NaN", sec |-> 0]

Infinity == [class |-> "inf", sec |-> 0]

\* threshold_sec.is_finite() && threshold_sec >= 0.0
safe_threshold(threshold_sec) ==
    IF threshold_sec.class = "number" /\ threshold_sec.sec >= 0
        THEN threshold_sec.sec
        ELSE DEFAULT_THRESHOLD

\* arguments of SilenceDetector::new
ThresholdSecs == {Secs(n) : n \in -1..MaxThresholdSec} \cup {NaN, Infinity}

\* one call in the log
Call(kind) == [kind |-> kind, at |-> clock]

\* SilenceDetector::new(vad, threshold_sec)
InitDetector ==
    /\ silence_start = None
    /\ \E threshold_sec \in ThresholdSecs : threshold = safe_threshold(threshold_sec)
    /\ clock = 0
    /\ sd_status = NoStatus
    /\ sd_log = <<>>
    /\ retry_count = 0
    /\ EnhanceIdle
    /\ TranscribeIdle
    /\ ChunkIdle
    /\ DedupIdle
    /\ ValidateIdle
    /\ CaptureIdle
    /\ EncodeIdle
    /\ TrimIdle
    /\ TranscribeAudioIdle
    /\ DispatchIdle
    /\ PasteIdle
    /\ state = "Idle"
    /\ recording_mode = "Toggle"
    /\ state_lock = 0
    /\ mode_lock = 0
    /\ pc = [t \in Threads |-> "idle"]
    /\ op = [t \in Threads |-> "none"]
    /\ ev = [t \in Threads |-> NoEvent]
    /\ arg = [t \in Threads |-> "none"]
    /\ old = [t \in Threads |-> "none"]
    /\ new = [t \in Threads |-> "none"]
    /\ m = [t \in Threads |-> "none"]
    /\ val = [t \in Threads |-> <<>>]

\* time passes between two calls
Tick ==
    /\ clock < MaxClock
    /\ clock' = clock + 1
    /\ UNCHANGED <<silence_start, threshold, sd_status, sd_log, outside_sd>>

\* process_frame: self.vad.is_speech(frame)? is an Err
ProcessFrameError ==
    /\ Len(sd_log) < MaxCalls
    /\ sd_status' = VadErr
    /\ sd_log' = Append(sd_log, Call("error"))
    /\ UNCHANGED <<silence_start, threshold, clock, outside_sd>>

\* faulty variant of ProcessFrameSpeech: silence_start is kept
ProcessFrameSpeech_KeepsStart ==
    /\ Len(sd_log) < MaxCalls
    /\ sd_status' = Speech
    /\ sd_log' = Append(sd_log, Call("speech"))
    /\ UNCHANGED <<silence_start, threshold, clock, outside_sd>>

\* process_frame: is_speech
ProcessFrameSpeech ==
    /\ Len(sd_log) < MaxCalls
    /\ silence_start' = None
    /\ sd_status' = Speech
    /\ sd_log' = Append(sd_log, Call("speech"))
    /\ UNCHANGED <<threshold, clock, outside_sd>>

\* process_frame: not is_speech
ProcessFrameSilence ==
    /\ Len(sd_log) < MaxCalls
    /\ LET now == clock
           start == IF silence_start = None THEN now ELSE silence_start.at
           silence_duration == now - start
       IN  /\ silence_start' = Some(start)
           /\ sd_status' = IF silence_duration >= threshold
                               THEN SilenceTimeout
                               ELSE Silence(silence_duration)
    /\ sd_log' = Append(sd_log, Call("silence"))
    /\ UNCHANGED <<threshold, clock, outside_sd>>

\* SilenceDetector::reset
DetectorReset ==
    /\ Len(sd_log) < MaxCalls
    /\ silence_start' = None
    /\ sd_log' = Append(sd_log, Call("reset"))
    /\ UNCHANGED <<threshold, clock, sd_status, outside_sd>>

NextDetector ==
    \/ Tick
    \/ ProcessFrameError
    \/ ProcessFrameSpeech
    \/ ProcessFrameSilence
    \/ DetectorReset

SpecDetector == InitDetector /\ [][NextDetector]_vars

(***************************************************************************)
(* audio/capture_cpal.rs: AudioCapture.  start_recording and               *)
(* stop_recording take &mut self: one owner calls them, one at a time.     *)
(* The input callback runs on the audio thread of the platform while the   *)
(* stream plays.  Every access to the buffer is three steps: lock the      *)
(* mutex, work on the Vec, unlock.  Dropping a cpal Stream stops the audio *)
(* thread: the drop returns once a callback in progress has returned, and  *)
(* no callback begins after it.                                            *)
(***************************************************************************)
\* most calls of the owner
MaxOwnerCalls == 4

\* most samples the hardware delivers
MaxDelivered == 3

\* device.default_input_config(): the formats of the devices
DeviceFormats == {CaptureFormat(16000, 1), CaptureFormat(48000, 2)}

\* config.sample_format()
SampleFormats == {"F32", "I16", "U16", "U8"}

\* the callbacks of the stream run: the stream plays in start_recording or
\* is kept in self.stream
StreamPlays == o_pc = "start_store" \/ stream

\* the owner calls a method
OwnerCalls(method) ==
    /\ o_pc = "idle"
    /\ o_calls < MaxOwnerCalls
    /\ o_calls' = o_calls + 1
    /\ o_call' = method
    /\ o_entry' = Capture(stream, buffer, format, is_recording)

\* the method returns r
OwnerReturns(r) ==
    /\ cap_result' = r
    /\ o_pc' = "idle"
    /\ o_format' = NoFormat

InitCapture ==
    /\ CaptureIdle
    /\ retry_count = 0
    /\ EnhanceIdle
    /\ TranscribeIdle
    /\ ChunkIdle
    /\ DedupIdle
    /\ ValidateIdle
    /\ DetectorIdle
    /\ EncodeIdle
    /\ TrimIdle
    /\ TranscribeAudioIdle
    /\ DispatchIdle
    /\ PasteIdle
    /\ state = "Idle"
    /\ recording_mode = "Toggle"
    /\ state_lock = 0
    /\ mode_lock = 0
    /\ pc = [t \in Threads |-> "idle"]
    /\ op = [t \in Threads |-> "none"]
    /\ ev = [t \in Threads |-> NoEvent]
    /\ arg = [t \in Threads |-> "none"]
    /\ old = [t \in Threads |-> "none"]
    /\ new = [t \in Threads |-> "none"]
    /\ m = [t \in Threads |-> "none"]
    /\ val = [t \in Threads |-> <<>>]

\* faulty variant of StartAlreadyRecording: the session is started again
StartAlreadyRecording_Restarts ==
    /\ OwnerCalls("start")
    /\ is_recording
    /\ o_pc' = "start_lock"
    /\ o_format' = format
    /\ UNCHANGED <<stream, buffer, format, is_recording, buffer_lock, cap_result,
                   cb_pc, cb_data, session, delivered, appended, returned,
                   outside_cap>>

\* start_recording: if self.is_recording() { return Err(AlreadyRecording) }
StartAlreadyRecording ==
    /\ OwnerCalls("start")
    /\ is_recording
    /\ OwnerReturns(CaptureErr("AlreadyRecording"))
    /\ UNCHANGED <<stream, buffer, format, is_recording, buffer_lock,
                   cb_pc, cb_data, session, delivered, appended, returned,
                   outside_cap>>

\* start_recording: host.default_input_device() is None
StartNoDevice ==
    /\ OwnerCalls("start")
    /\ ~is_recording
    /\ OwnerReturns(CaptureErr("NoInputDevice"))
    /\ UNCHANGED <<stream, buffer, format, is_recording, buffer_lock,
                   cb_pc, cb_data, session, delivered, appended, returned,
                   outside_cap>>

\* start_recording: device.default_input_config() is an Err
StartNoConfig ==
    /\ OwnerCalls("start")
    /\ ~is_recording
    /\ OwnerReturns(CaptureErr("NoInputConfig"))
    /\ UNCHANGED <<stream, buffer, format, is_recording, buffer_lock,
                   cb_pc, cb_data, session, delivered, appended, returned,
                   outside_cap>>

\* start_recording: the device and its config are there
StartConfigured(fmt) ==
    /\ OwnerCalls("start")
    /\ ~is_recording
    /\ o_format' = fmt
    /\ o_pc' = "start_lock"
    /\ UNCHANGED <<stream, buffer, format, is_recording, buffer_lock, cap_result,
                   cb_pc, cb_data, session, delivered, appended, returned,
                   outside_cap>>

\* start_recording: self.buffer.lock()
StartLock ==
    /\ o_pc = "start_lock"
    /\ buffer_lock = "free"
    /\ buffer_lock' = "owner"
    /\ o_pc' = "start_clear"
    /\ UNCHANGED <<stream, buffer, format, is_recording, o_call, o_calls, o_entry,
                   o_format, cap_result, cb_pc, cb_data, session, delivered,
                   appended, returned, outside_cap>>

\* start_recording: .clear(), and the guard is dropped
StartClear ==
    /\ o_pc = "start_clear"
    /\ buffer' = <<>>
    /\ buffer_lock' = "free"
    /\ o_pc' = "start_build"
    /\ UNCHANGED <<stream, format, is_recording, o_call, o_calls, o_entry,
                   o_format, cap_result, cb_pc, cb_data, session, delivered,
                   appended, returned, outside_cap>>

\* start_recording: the sample format is not F32, I16 or U16, or
\* device.build_input_stream is an Err
StartBuildFailed(sample_format, built) ==
    /\ o_pc = "start_build"
    /\ sample_format \notin {"F32", "I16", "U16"} \/ ~built
    /\ OwnerReturns(IF sample_format \notin {"F32", "I16", "U16"}
                        THEN CaptureErr("CaptureFailed: unsupported sample format")
                        ELSE CaptureErr("CaptureFailed: build_input_stream"))
    /\ UNCHANGED <<stream, buffer, format, is_recording, buffer_lock, o_call,
                   o_calls, o_entry, cb_pc, cb_data, session, delivered,
                   appended, returned, outside_cap>>

\* start_recording: the stream is built
StartBuilt(sample_format) ==
    /\ o_pc = "start_build"
    /\ sample_format \in {"F32", "I16", "U16"}
    /\ o_pc' = "start_play"
    /\ UNCHANGED <<stream, buffer, format, is_recording, buffer_lock, o_call,
                   o_calls, o_entry, o_format, cap_result, cb_pc, cb_data,
                   session, delivered, appended, returned, outside_cap>>

\* start_recording: stream.play() is an Err; the stream is dropped
StartPlayFailed ==
    /\ o_pc = "start_play"
    /\ OwnerReturns(CaptureErr("CaptureFailed: play"))
    /\ UNCHANGED <<stream, buffer, format, is_recording, buffer_lock, o_call,
                   o_calls, o_entry, cb_pc, cb_data, session, delivered,
                   appended, returned, outside_cap>>

\* start_recording: stream.play() is Ok; the callbacks of the stream begin
StartPlayed ==
    /\ o_pc = "start_play"
    /\ o_pc' = "start_store"
    /\ session' = session + 1
    /\ appended' = <<>>
    /\ UNCHANGED <<stream, buffer, format, is_recording, buffer_lock, o_call,
                   o_calls, o_entry, o_format, cap_result, cb_pc, cb_data,
                   delivered, returned, outside_cap>>

\* start_recording: self.stream = Some(stream); self.format = Some(..);
\* self.is_recording.store(true); Ok(())
StartStore ==
    /\ o_pc = "start_store"
    /\ stream' = TRUE
    /\ format' = o_format
    /\ is_recording' = TRUE
    /\ OwnerReturns(CaptureOk(<<>>, NoFormat))
    /\ UNCHANGED <<buffer, buffer_lock, o_call, o_calls, o_entry, cb_pc, cb_data,
                   session, delivered, appended, returned, outside_cap>>

\* stop_recording: self.is_recording.store(false)
StopStore ==
    /\ OwnerCalls("stop")
    /\ is_recording' = FALSE
    /\ o_pc' = "stop_drop"
    /\ UNCHANGED <<stream, buffer, format, buffer_lock, o_format, cap_result,
                   cb_pc, cb_data, session, delivered, appended, returned,
                   outside_cap>>

\* faulty variant of StopDropStream: the drop does not wait for the callback
StopDropStream_NoWait ==
    /\ o_pc = "stop_drop"
    /\ stream' = FALSE
    /\ o_pc' = "stop_format"
    /\ UNCHANGED <<buffer, format, is_recording, buffer_lock, o_call, o_calls,
                   o_entry, o_format, cap_result, cb_pc, cb_data, session,
                   delivered, appended, returned, outside_cap>>

\* stop_recording: self.stream.take(), and the Stream is dropped
StopDropStream ==
    /\ o_pc = "stop_drop"
    /\ stream => cb_pc = "idle"
    /\ stream' = FALSE
    /\ o_pc' = "stop_format"
    /\ UNCHANGED <<buffer, format, is_recording, buffer_lock, o_call, o_calls,
                   o_entry, o_format, cap_result, cb_pc, cb_data, session,
                   delivered, appended, returned, outside_cap>>

\* stop_recording: self.format.take() is None: Err(NotRecording)
StopNotRecording ==
    /\ o_pc = "stop_format"
    /\ format = NoFormat
    /\ OwnerReturns(CaptureErr("NotRecording"))
    /\ UNCHANGED <<stream, buffer, format, is_recording, buffer_lock, o_call,
                   o_calls, o_entry, cb_pc, cb_data, session, delivered,
                   appended, returned, outside_cap>>

\* stop_recording: let format = self.format.take()
StopTakeFormat ==
    /\ o_pc = "stop_format"
    /\ format # NoFormat
    /\ o_format' = format
    /\ format' = NoFormat
    /\ o_pc' = "stop_lock"
    /\ UNCHANGED <<stream, buffer, is_recording, buffer_lock, o_call, o_calls,
                   o_entry, cap_result, cb_pc, cb_data, session, delivered,
                   appended, returned, outside_cap>>

\* stop_recording: self.buffer.lock()
StopLock ==
    /\ o_pc = "stop_lock"
    /\ buffer_lock = "free"
    /\ buffer_lock' = "owner"
    /\ o_pc' = "stop_take"
    /\ UNCHANGED <<stream, buffer, format, is_recording, o_call, o_calls, o_entry,
                   o_format, cap_result, cb_pc, cb_data, session, delivered,
                   appended, returned, outside_cap>>

\* faulty variant of StopTake: the samples are copied, the buffer is kept
StopTake_Copies ==
    /\ o_pc = "stop_take"
    /\ buffer_lock' = "free"
    /\ returned' = returned \o buffer
    /\ OwnerReturns(CaptureOk(buffer, o_format))
    /\ UNCHANGED <<stream, buffer, format, is_recording, o_call, o_calls, o_entry,
                   cb_pc, cb_data, session, delivered, appended, outside_cap>>

\* stop_recording: std::mem::take(&mut *buf), the guard is dropped,
\* Ok((samples, format))
StopTake ==
    /\ o_pc = "stop_take"
    /\ buffer' = <<>>
    /\ buffer_lock' = "free"
    /\ returned' = returned \o buffer
    /\ OwnerReturns(CaptureOk(buffer, o_format))
    /\ UNCHANGED <<stream, format, is_recording, o_call, o_calls, o_entry,
                   cb_pc, cb_data, session, delivered, appended, outside_cap>>

\* the input callback is called with a sample: is_recording.load()
CallbackLoad ==
    /\ StreamPlays
    /\ cb_pc = "idle"
    /\ delivered < MaxDelivered
    /\ delivered' = delivered + 1
    /\ IF is_recording
         THEN /\ cb_pc' = "lock"
              /\ cb_data' = Sample(session, delivered + 1)
         ELSE UNCHANGED <<cb_pc, cb_data>>
    /\ UNCHANGED <<stream, buffer, format, is_recording, buffer_lock, o_pc, o_call,
                   o_calls, o_entry, o_format, cap_result, session, appended,
                   returned, outside_cap>>

\* the input callback: buffer.lock()
CallbackLock ==
    /\ cb_pc = "lock"
    /\ buffer_lock = "free"
    /\ buffer_lock' = "callback"
    /\ cb_pc' = "extend"
    /\ UNCHANGED <<stream, buffer, format, is_recording, o_pc, o_call, o_calls,
                   o_entry, o_format, cap_result, cb_data, session, delivered,
                   appended, returned, outside_cap>>

\* the input callback: buf.extend_from_slice(data), and the guard is dropped
CallbackExtend ==
    /\ cb_pc = "extend"
    /\ buffer' = Append(buffer, cb_data)
    /\ appended' = Append(appended, cb_data)
    /\ buffer_lock' = "free"
    /\ cb_pc' = "idle"
    /\ cb_data' = NoSample
    /\ UNCHANGED <<stream, format, is_recording, o_pc, o_call, o_calls, o_entry,
                   o_format, cap_result, session, delivered, returned,
                   outside_cap>>

NextCapture ==
    \/ StartAlreadyRecording
    \/ StartNoDevice
    \/ StartNoConfig
    \/ \E fmt \in DeviceFormats : StartConfigured(fmt)
    \/ StartLock
    \/ StartClear
    \/ \E sample_format \in SampleFormats, built \in BOOLEAN :
           StartBuildFailed(sample_format, built)
    \/ \E sample_format \in SampleFormats : StartBuilt(sample_format)
    \/ StartPlayFailed
    \/ StartPlayed
    \/ StartStore
    \/ StopStore
    \/ StopDropStream
    \/ StopNotRecording
    \/ StopTakeFormat
    \/ StopLock
    \/ StopTake
    \/ CallbackLoad
    \/ CallbackLock
    \/ CallbackExtend

SpecCapture == InitCapture /\ [][NextCapture]_vars

(***************************************************************************)
(* audio/encode.rs: encode_ogg_opus, one action per return of the function *)
(* and per iteration of its loop.  The input is given by its length; a     *)
(* frame is the range of input samples it holds and the zeros that follow  *)
(* them, and a packet carries the frame that was encoded into it.          *)
(***************************************************************************)
EXPECTED_SAMPLE_RATE == 16000

FRAME_SIZE == 320

PRE_SKIP == 312

STREAM_SERIAL == 1

GRANULE_PER_FRAME == 960

\* most samples of an input
MaxEncodeSamples == 1000

\* sample rates of the callers
EncodeRates == {8000, EXPECTED_SAMPLE_RATE, 44100}

\* usize::div_ceil
div_ceil(a, b) == (a + b - 1) \div b

\* build_opus_head(input_sample_rate)
build_opus_head(input_sample_rate) ==
    [magic |-> "OpusHead", version |-> 1, channels |-> 1, pre_skip |-> PRE_SKIP,
     input_sample_rate |-> input_sample_rate, output_gain |-> 0,
     channel_mapping |-> 0]

\* build_opus_tags()
build_opus_tags ==
    [magic |-> "OpusTags", vendor |-> "VoiceDictator", comments |-> 0]

\* the i-th chunk (from 0) of samples.chunks(FRAME_SIZE), copied to the head
\* of a frame of FRAME_SIZE zeros
Frame(i) ==
    LET from == i * FRAME_SIZE
        to == IF from + FRAME_SIZE < n_samples THEN from + FRAME_SIZE ELSE n_samples
    IN  [from |-> from, to |-> to, zeros |-> FRAME_SIZE - (to - from)]

NoFrame == [from |-> 0, to |-> 0, zeros |-> 0]

\* writer.write_packet(payload, serial, end_info, granule)
Packet(payload, frame, serial, end_info, granule) ==
    [payload |-> payload, frame |-> frame, serial |-> serial,
     end_info |-> end_info, granule |-> granule]

\* faulty variant of end_info: the last frame is looked for one index late
end_info_OneLate(i, total_frames) ==
    IF i = total_frames THEN "EndStream" ELSE "NormalPacket"

\* if i == total_frames - 1 { EndStream } else { NormalPacket }
end_info(i, total_frames) ==
    IF i = total_frames - 1 THEN "EndStream" ELSE "NormalPacket"

InitEncode ==
    /\ n_pc = "call"
    /\ n_samples \in 0..MaxEncodeSamples
    /\ n_rate \in EncodeRates
    /\ out = <<>>
    /\ granule_pos = 0
    /\ n_i = 0
    /\ n_result = NoEncodeResult
    /\ retry_count = 0
    /\ EnhanceIdle
    /\ TranscribeIdle
    /\ ChunkIdle
    /\ DedupIdle
    /\ ValidateIdle
    /\ DetectorIdle
    /\ CaptureIdle
    /\ TrimIdle
    /\ TranscribeAudioIdle
    /\ DispatchIdle
    /\ PasteIdle
    /\ state = "Idle"
    /\ recording_mode = "Toggle"
    /\ state_lock = 0
    /\ mode_lock = 0
    /\ pc = [t \in Threads |-> "idle"]
    /\ op = [t \in Threads |-> "none"]
    /\ ev = [t \in Threads |-> NoEvent]
    /\ arg = [t \in Threads |-> "none"]
    /\ old = [t \in Threads |-> "none"]
    /\ new = [t \in Threads |-> "none"]
    /\ m = [t \in Threads |-> "none"]
    /\ val = [t \in Threads |-> <<>>]

\* if samples.is_empty() { return Ok(Vec::new()); }
EncodeEmpty ==
    /\ n_pc = "call"
    /\ n_samples = 0
    /\ n_result' = EncodeOk(<<>>)
    /\ n_pc' = "done"
    /\ UNCHANGED <<n_samples, n_rate, out, granule_pos, n_i, outside_enc>>

\* if sample_rate != EXPECTED_SAMPLE_RATE { return Err(EncodingFailed(..)) }
EncodeWrongRate ==
    /\ n_pc = "call"
    /\ n_samples # 0
    /\ n_rate # EXPECTED_SAMPLE_RATE
    /\ n_result' = EncodeErr("EncodingFailed")
    /\ n_pc' = "done"
    /\ UNCHANGED <<n_samples, n_rate, out, granule_pos, n_i, outside_enc>>

\* Encoder::new or set_bitrate is an Err
EncodeNoEncoder ==
    /\ n_pc = "call"
    /\ n_samples # 0
    /\ n_rate = EXPECTED_SAMPLE_RATE
    /\ n_result' = EncodeErr("EncodingFailed")
    /\ n_pc' = "done"
    /\ UNCHANGED <<n_samples, n_rate, out, granule_pos, n_i, outside_enc>>

\* the encoder is made; the OpusHead and OpusTags packets are written
EncodeHeaders ==
    /\ n_pc = "call"
    /\ n_samples # 0
    /\ n_rate = EXPECTED_SAMPLE_RATE
    /\ out' = <<Packet(build_opus_head(n_rate), NoFrame, STREAM_SERIAL, "EndPage", 0),
                Packet(build_opus_tags, NoFrame, STREAM_SERIAL, "EndPage", 0)>>
    /\ granule_pos' = 0
    /\ n_i' = 0
    /\ n_pc' = "loop"
    /\ UNCHANGED <<n_samples, n_rate, n_result, outside_enc>>

\* one iteration: encoder.encode_vec_float is an Err
EncodeFrameFailed ==
    /\ n_pc = "loop"
    /\ n_i < div_ceil(n_samples, FRAME_SIZE)
    /\ n_result' = EncodeErr("EncodingFailed")
    /\ n_pc' = "done"
    /\ UNCHANGED <<n_samples, n_rate, out, granule_pos, n_i, outside_enc>>

\* one iteration: the frame is padded, encoded and written
EncodeFrame ==
    /\ n_pc = "loop"
    /\ n_i < div_ceil(n_samples, FRAME_SIZE)
    /\ granule_pos' = granule_pos + GRANULE_PER_FRAME
    /\ out' = Append(out, Packet("audio", Frame(n_i), STREAM_SERIAL,
                                 end_info(n_i, div_ceil(n_samples, FRAME_SIZE)),
                                 granule_pos + GRANULE_PER_FRAME))
    /\ n_i' = n_i + 1
    /\ UNCHANGED <<n_pc, n_samples, n_rate, n_result, outside_enc>>

\* the loop is over: Ok(out)
EncodeReturn ==
    /\ n_pc = "loop"
    /\ n_i = div_ceil(n_samples, FRAME_SIZE)
    /\ n_result' = EncodeOk(out)
    /\ n_pc' = "done"
    /\ UNCHANGED <<n_samples, n_rate, out, granule_pos, n_i, outside_enc>>

NextEncode ==
    \/ EncodeEmpty
    \/ EncodeWrongRate
    \/ EncodeNoEncoder
    \/ EncodeHeaders
    \/ EncodeFrameFailed
    \/ EncodeFrame
    \/ EncodeReturn

SpecEncode == InitEncode /\ [][NextEncode]_vars

(***************************************************************************)
(* audio/preprocess.rs: trim_leading_silence, trim_trailing_silence and    *)
(* trim_silence.  A slice is a range of indices of the take it borrows     *)
(* from; the samples of a take are 0.0 or 1.0, so the sum of the squares   *)
(* of a frame is the number of its samples inside the tone.                *)
(***************************************************************************)
ENERGY_FRAME_MS == 20

\* SILENCE_RMS_THRESHOLD = 0.01 as a fraction
SILENCE_RMS_THRESHOLD_NUM == 1

SILENCE_RMS_THRESHOLD_DEN == 100

\* the thresholds trim_silence passes on, in milliseconds
LEADING_MIN_SILENCE_MS == 200

TRAILING_MIN_SILENCE_MS == 500

\* samples.len()
TakeLen(a) == a.lead + a.tone + a.trail

SliceLen(s) == s.to - s.from

\* samples of amplitude 1.0 among the samples from..to of the take
ToneSamples(a, from, to) ==
    LET lo == IF from > a.lead THEN from ELSE a.lead
        hi == IF to < a.lead + a.tone THEN to ELSE a.lead + a.tone
    IN  IF hi > lo THEN hi - lo ELSE 0

\* calculate_energy(frame) > SILENCE_RMS_THRESHOLD, for the frame from..to:
\* sqrt(sum_sq / len) > 0.01, compared by the squares
Voiced(a, from, to) ==
    /\ to > from
    /\ ToneSamples(a, from, to) * SILENCE_RMS_THRESHOLD_DEN * SILENCE_RMS_THRESHOLD_DEN
           > (to - from) * SILENCE_RMS_THRESHOLD_NUM * SILENCE_RMS_THRESHOLD_NUM

\* the i-th chunk (from 0) of s.chunks(frame_size)
Chunk(s, frame_size, i) ==
    LET from == s.from + i * frame_size
    IN  Slice(from, IF from + frame_size < s.to THEN from + frame_size ELSE s.to)

\* the loop of trim_leading_silence from chunk i on: silent_frames and
\* first_voice_sample when it ends
RECURSIVE LeadingScan(_, _, _, _)
LeadingScan(a, s, frame_size, i) ==
    IF i * frame_size >= SliceLen(s)
        THEN [silent_frames |-> i, first_voice_sample |-> i * frame_size]
    ELSE IF Voiced(a, Chunk(s, frame_size, i).from, Chunk(s, frame_size, i).to)
        THEN [silent_frames |-> i, first_voice_sample |-> i * frame_size]
    ELSE LeadingScan(a, s, frame_size, i + 1)

\* faulty variant of trim_leading_silence: a slice without voice is kept
trim_leading_silence_KeepsSilence(a, s, rate, min_silence_ms) ==
    LET frame_size == (rate * ENERGY_FRAME_MS) \div 1000
        min_silent_frames == min_silence_ms \div ENERGY_FRAME_MS
        scan == LeadingScan(a, s, frame_size, 0)
    IN  IF SliceLen(s) = 0 THEN s
        ELSE IF frame_size = 0 THEN s
        ELSE IF scan.silent_frames < min_silent_frames THEN s
        ELSE IF scan.first_voice_sample >= SliceLen(s) THEN s
        ELSE Slice(s.from + scan.first_voice_sample, s.to)

\* trim_leading_silence(samples, sample_rate, min_silence_ms) for the slice s
trim_leading_silence(a, s, rate, min_silence_ms) ==
    LET frame_size == (rate * ENERGY_FRAME_MS) \div 1000
        min_silent_frames == min_silence_ms \div ENERGY_FRAME_MS
        scan == LeadingScan(a, s, frame_size, 0)
    IN  IF SliceLen(s) = 0 THEN s
        ELSE IF frame_size = 0 THEN s
        ELSE IF scan.silent_frames < min_silent_frames THEN s
        ELSE IF scan.first_voice_sample >= SliceLen(s) THEN Slice(s.from, s.from)
        ELSE Slice(s.from + scan.first_voice_sample, s.to)

\* the loop of trim_trailing_silence from chunk i down, with `seen` silent
\* chunks behind it: trailing_silence and last_voice_end when it ends
RECURSIVE TrailingScan(_, _, _, _, _)
TrailingScan(a, s, frame_size, i, seen) ==
    IF Voiced(a, Chunk(s, frame_size, i).from, Chunk(s, frame_size, i).to)
        THEN [trailing_silence |-> seen, last_voice_end |-> (i + 1) * frame_size]
    ELSE IF i = 0
        THEN [trailing_silence |-> seen + 1, last_voice_end |-> 0]
    ELSE TrailingScan(a, s, frame_size, i - 1, seen + 1)

\* trim_trailing_silence(samples, sample_rate, min_silence_ms) for the slice s
trim_trailing_silence(a, s, rate, min_silence_ms) ==
    LET frame_size == (rate * ENERGY_FRAME_MS) \div 1000
        min_silent_frames == min_silence_ms \div ENERGY_FRAME_MS
        chunks_count == (SliceLen(s) + frame_size - 1) \div frame_size
        scan == TrailingScan(a, s, frame_size, chunks_count - 1, 0)
        end == IF scan.last_voice_end < SliceLen(s)
                   THEN scan.last_voice_end ELSE SliceLen(s)
    IN  IF SliceLen(s) = 0 THEN s
        ELSE IF frame_size = 0 THEN s
        ELSE IF scan.trailing_silence < min_silent_frames THEN s
        ELSE Slice(s.from, s.from + end)

\* most samples of silence before the tone, of the tone, and after it
MaxLeadSilence == 22

MaxTone == 3

MaxTrailSilence == 52

\* sample rates: no frame, frames of one sample, frames of two samples
TrimRates == {0, 50, 100}

Takes ==
    {Take(lead, tone, trail) :
        lead \in 0..MaxLeadSilence, tone \in 0..MaxTone, trail \in 0..MaxTrailSilence}

InitTrim ==
    /\ t_pc = "call"
    /\ t_samples \in Takes
    /\ t_rate \in TrimRates
    /\ trimmed = Slice(0, 0)
    /\ t_result = Slice(0, 0)
    /\ retry_count = 0
    /\ EnhanceIdle
    /\ TranscribeIdle
    /\ ChunkIdle
    /\ DedupIdle
    /\ ValidateIdle
    /\ DetectorIdle
    /\ CaptureIdle
    /\ EncodeIdle
    /\ TranscribeAudioIdle
    /\ DispatchIdle
    /\ PasteIdle
    /\ state = "Idle"
    /\ recording_mode = "Toggle"
    /\ state_lock = 0
    /\ mode_lock = 0
    /\ pc = [t \in Threads |-> "idle"]
    /\ op = [t \in Threads |-> "none"]
    /\ ev = [t \in Threads |-> NoEvent]
    /\ arg = [t \in Threads |-> "none"]
    /\ old = [t \in Threads |-> "none"]
    /\ new = [t \in Threads |-> "none"]
    /\ m = [t \in Threads |-> "none"]
    /\ val = [t \in Threads |-> <<>>]

\* let trimmed = trim_leading_silence(samples, sample_rate, 200)
TrimLeading ==
    /\ t_pc = "call"
    /\ trimmed' = trim_leading_silence(t_samples, Slice(0, TakeLen(t_samples)),
                                       t_rate, LEADING_MIN_SILENCE_MS)
    /\ t_pc' = "leading_done"
    /\ UNCHANGED <<t_samples, t_rate, t_result, outside_trim>>

\* trim_trailing_silence(trimmed, sample_rate, 500) is returned
TrimTrailing ==
    /\ t_pc = "leading_done"
    /\ t_result' = trim_trailing_silence(t_samples, trimmed, t_rate,
                                         TRAILING_MIN_SILENCE_MS)
    /\ t_pc' = "done"
    /\ UNCHANGED <<t_samples, t_rate, trimmed, outside_trim>>

NextTrim ==
    \/ TrimLeading
    \/ TrimTrailing

SpecTrim == InitTrim /\ [][NextTrim]_vars

(***************************************************************************)
(* stt/mod.rs: transcribe_audio.  The provider is any SttProvider: a       *)
(* request returns a transcript or an error.  chunk_audio is the function  *)
(* modelled above; here only the number of chunks it returned matters.     *)
(***************************************************************************)
\* the loop of deduplicate_overlap_texts from texts[i] on
RECURSIVE DedupFrom(_, _, _)
DedupFrom(res, ts, i) ==
    IF i > Len(ts) THEN res
    ELSE LET overlap_words == find_text_overlap(res, ts[i])
             remaining == JoinWords(Skip(split_whitespace(ts[i]), overlap_words))
         IN  DedupFrom(IF overlap_words = 0
                           THEN Concat(Concat(res, <<Run(" ", 1)>>), ts[i])
                       ELSE IF remaining # <<>>
                           THEN Concat(Concat(res, <<Run(" ", 1)>>), remaining)
                       ELSE res,
                       ts, i + 1)

deduplicate_overlap_texts(ts) ==
    IF ts = <<>> THEN <<>>
    ELSE IF Len(ts) = 1 THEN ts[1]
    ELSE DedupFrom(ts[1], ts, 2)

\* most chunks chunk_audio returns to transcribe_audio
MaxTaChunks == 3

\* results of provider.transcribe
ProviderResults ==
    {OkText(Words("a", 2)), OkText(<<Run(" ", 1)>>),
     OkText(<<Run(" ", 1), Run("b", 2), Run(" ", 1)>>),
     Err("Timeout"), ApiError(500)}

\* an entry of the history
Sent(i) == [what |-> "sent", chunk |-> i]

Came(i, r) == [what |-> "returned", chunk |-> i, result |-> r]

InitTranscribeAudio ==
    /\ ta_pc = "call"
    /\ ta_samples \in {"empty", "short", "long"}
    /\ ta_rate \in {0, 8000, EXPECTED_SAMPLE_RATE}
    /\ ta_chunks = 0
    /\ ta_i = 0
    /\ ta_texts = <<>>
    /\ ta_result = NoResult
    /\ ta_log = <<>>
    /\ retry_count = 0
    /\ EnhanceIdle
    /\ TranscribeIdle
    /\ ChunkIdle
    /\ DedupIdle
    /\ ValidateIdle
    /\ DetectorIdle
    /\ CaptureIdle
    /\ EncodeIdle
    /\ TrimIdle
    /\ DispatchIdle
    /\ PasteIdle
    /\ state = "Idle"
    /\ recording_mode = "Toggle"
    /\ state_lock = 0
    /\ mode_lock = 0
    /\ pc = [t \in Threads |-> "idle"]
    /\ op = [t \in Threads |-> "none"]
    /\ ev = [t \in Threads |-> NoEvent]
    /\ arg = [t \in Threads |-> "none"]
    /\ old = [t \in Threads |-> "none"]
    /\ new = [t \in Threads |-> "none"]
    /\ m = [t \in Threads |-> "none"]
    /\ val = [t \in Threads |-> <<>>]

\* if sample_rate == 0 { return Err(EncodingFailed) }
TaZeroRate ==
    /\ ta_pc = "call"
    /\ ta_rate = 0
    /\ ta_result' = Err("EncodingFailed")
    /\ ta_pc' = "done"
    /\ UNCHANGED <<ta_samples, ta_rate, ta_chunks, ta_i, ta_texts, ta_log, outside_ta>>

\* samples.len() <= max_chunk_samples and encode_ogg_opus returns an Err: of
\* the encoder, or of the sample rate when there are samples
TaWholeEncodeFailed ==
    /\ ta_pc = "call"
    /\ ta_rate # 0
    /\ ta_samples = "short"
    /\ ta_result' = Err("EncodingFailed")
    /\ ta_pc' = "done"
    /\ UNCHANGED <<ta_samples, ta_rate, ta_chunks, ta_i, ta_texts, ta_log, outside_ta>>

\* samples.len() <= max_chunk_samples: the encoded recording is one request
TaWholeSend ==
    /\ ta_pc = "call"
    /\ ta_rate # 0
    /\ \/ ta_samples = "empty"
       \/ ta_samples = "short" /\ ta_rate = EXPECTED_SAMPLE_RATE
    /\ ta_log' = Append(ta_log, Sent(0))
    /\ ta_pc' = "await_whole"
    /\ UNCHANGED <<ta_samples, ta_rate, ta_chunks, ta_i, ta_texts, ta_result, outside_ta>>

\* return provider.transcribe(&encoded, language).await
TaWholeReturn(r) ==
    /\ ta_pc = "await_whole"
    /\ ta_log' = Append(ta_log, Came(0, r))
    /\ ta_result' = r
    /\ ta_pc' = "done"
    /\ UNCHANGED <<ta_samples, ta_rate, ta_chunks, ta_i, ta_texts, outside_ta>>

\* let chunks = chunk_audio(samples, sample_rate, max_sec)
TaSplit(n) ==
    /\ ta_pc = "call"
    /\ ta_rate # 0
    /\ ta_samples = "long"
    /\ ta_chunks' = n
    /\ ta_i' = 0
    /\ ta_texts' = <<>>
    /\ ta_pc' = "loop"
    /\ UNCHANGED <<ta_samples, ta_rate, ta_result, ta_log, outside_ta>>

\* encode_ogg_opus(&chunk.samples, sample_rate) returns an Err, and `?`
\* returns it
TaEncodeFailed ==
    /\ ta_pc = "loop"
    /\ ta_i < ta_chunks
    /\ ta_result' = Err("EncodingFailed")
    /\ ta_pc' = "done"
    /\ UNCHANGED <<ta_samples, ta_rate, ta_chunks, ta_i, ta_texts, ta_log, outside_ta>>

\* the chunk is encoded and provider.transcribe(&encoded, language) is called
TaSend ==
    /\ ta_pc = "loop"
    /\ ta_i < ta_chunks
    /\ ta_rate = EXPECTED_SAMPLE_RATE
    /\ ta_log' = Append(ta_log, Sent(ta_i + 1))
    /\ ta_pc' = "await"
    /\ UNCHANGED <<ta_samples, ta_rate, ta_chunks, ta_i, ta_texts, ta_result, outside_ta>>

\* the request returns Ok(text): the trimmed text is pushed unless empty
TaReturnOk(r) ==
    /\ ta_pc = "await"
    /\ r.tag = "Ok"
    /\ ta_log' = Append(ta_log, Came(ta_i + 1, r))
    /\ ta_texts' = IF Trim(r.text) # <<>> THEN Append(ta_texts, Trim(r.text))
                   ELSE ta_texts
    /\ ta_i' = ta_i + 1
    /\ ta_pc' = "loop"
    /\ UNCHANGED <<ta_samples, ta_rate, ta_chunks, ta_result, outside_ta>>

\* faulty variant of TaReturnErr: the chunk is skipped
TaReturnErr_SkipsChunk(r) ==
    /\ ta_pc = "await"
    /\ r.tag = "Err"
    /\ ta_log' = Append(ta_log, Came(ta_i + 1, r))
    /\ ta_i' = ta_i + 1
    /\ ta_pc' = "loop"
    /\ UNCHANGED <<ta_samples, ta_rate, ta_chunks, ta_texts, ta_result, outside_ta>>

\* the request returns an Err, and `?` returns it
TaReturnErr(r) ==
    /\ ta_pc = "await"
    /\ r.tag = "Err"
    /\ ta_log' = Append(ta_log, Came(ta_i + 1, r))
    /\ ta_result' = r
    /\ ta_pc' = "done"
    /\ UNCHANGED <<ta_samples, ta_rate, ta_chunks, ta_i, ta_texts, outside_ta>>

\* Ok(deduplicate_overlap_texts(&texts))
TaFinish ==
    /\ ta_pc = "loop"
    /\ ta_i = ta_chunks
    /\ ta_result' = OkText(deduplicate_overlap_texts(ta_texts))
    /\ ta_pc' = "done"
    /\ UNCHANGED <<ta_samples, ta_rate, ta_chunks, ta_i, ta_texts, ta_log, outside_ta>>

NextTranscribeAudio ==
    \/ TaZeroRate
    \/ TaWholeEncodeFailed
    \/ TaWholeSend
    \/ \E r \in ProviderResults : TaWholeReturn(r)
    \/ \E n \in 1..MaxTaChunks : TaSplit(n)
    \/ TaEncodeFailed
    \/ TaSend
    \/ \E r \in ProviderResults : TaReturnOk(r)
    \/ \E r \in ProviderResults : TaReturnErr(r)
    \/ TaFinish

SpecTranscribeAudio == InitTranscribeAudio /\ [][NextTranscribeAudio]_vars

(***************************************************************************)
(* lib.rs: dispatch_and_update, with its callers hotkey.rs:                *)
(* on_shortcut_event and tray.rs: handle_menu_event, and with tray.rs:     *)
(* update_tray and notifications.rs: notify_state_change.  Every thread    *)
(* may call dispatch_and_update.  A method of SharedAppState is one step   *)
(* here: it is one critical section of the state mutex.                    *)
(***************************************************************************)
\* notification_text(old, new): the body of the notification, "none" for None
notification_text(o, n) ==
    IF n = "Recording" THEN "Recording started"
    ELSE IF n = "Idle" /\ o = "Pasting" THEN "Text inserted"
    ELSE IF n = "Idle" /\ o = "Error" THEN "Error dismissed"
    ELSE IF n = "Idle" THEN "Processing cancelled"
    ELSE IF n = "Error" THEN "An error occurred"
    ELSE "none"

\* build_menu(app, state): the ids of the items of the menu, in order
build_menu(st) ==
    IF st = "Idle" THEN <<"start_recording", "settings", "quit">>
    ELSE IF st = "Recording" THEN <<"stop_recording", "quit">>
    ELSE IF st \in {"Transcribing", "Enhancing", "Pasting"} THEN <<"cancel", "quit">>
    ELSE <<"settings", "quit">>

\* handle_menu_event(app, menu_id): the event passed to dispatch_and_update,
\* NoEvent when there is no such call
handle_menu_event(menu_id, mode) ==
    IF menu_id = "start_recording"
        THEN (IF mode = "Toggle" THEN Ev("HotkeyPressed") ELSE Ev("HotkeyDown"))
    ELSE IF menu_id = "stop_recording"
        THEN (IF mode = "Toggle" THEN Ev("HotkeyPressed") ELSE Ev("HotkeyUp"))
    ELSE IF menu_id = "cancel" THEN Ev("Cancel")
    ELSE NoEvent

\* on_shortcut_event(app, shortcut, event): the event passed to
\* dispatch_and_update, NoEvent when the handler returns without a call
on_shortcut_event(mode, shortcut_state) ==
    IF mode = "Toggle" /\ shortcut_state = "Pressed" THEN Ev("HotkeyPressed")
    ELSE IF mode = "Toggle" THEN NoEvent
    ELSE IF shortcut_state = "Pressed" THEN Ev("HotkeyDown")
    ELSE Ev("HotkeyUp")

\* matches!(event, HotkeyPressed | HotkeyDown)
IsStartEvent(e) == e.kind \in {"HotkeyPressed", "HotkeyDown"}

\* most calls of dispatch_and_update in a behaviour
MaxDispatchCalls == 5

\* the events of the callers that are neither the hotkey nor the tray
OtherEvents ==
    {Ev(k) : k \in {"SilenceTimeout", "MaxDurationTimeout", "TranscriptionDone",
                    "EnhancementDone", "PasteDone", "ErrorAcknowledged"}}
    \cup {Failed("test error")}

\* a notification of the history
Note(e, o, n, body) == [event |-> e.kind, old |-> o, new |-> n, body |-> body]

InitDispatch ==
    /\ du_pc = [t \in Threads |-> "idle"]
    /\ du_ev = [t \in Threads |-> NoEvent]
    /\ du_old = [t \in Threads |-> "none"]
    /\ du_new = [t \in Threads |-> "none"]
    /\ has_api_key \in BOOLEAN
    /\ show_notifications \in BOOLEAN
    /\ tray = "Idle"
    /\ notified = {}
    /\ started = 0
    /\ du_sess = [t \in Threads |-> 0]
    /\ seq = 0
    /\ du_seq = [t \in Threads |-> 0]
    /\ tray_seq = 0
    /\ du_calls = 0
    /\ retry_count = 0
    /\ EnhanceIdle
    /\ TranscribeIdle
    /\ ChunkIdle
    /\ DedupIdle
    /\ ValidateIdle
    /\ DetectorIdle
    /\ CaptureIdle
    /\ EncodeIdle
    /\ TrimIdle
    /\ TranscribeAudioIdle
    /\ PasteIdle
    /\ state = "Idle"
    /\ recording_mode \in RecordingMode
    /\ state_lock = 0
    /\ mode_lock = 0
    /\ pc = [t \in Threads |-> "idle"]
    /\ op = [t \in Threads |-> "none"]
    /\ ev = [t \in Threads |-> NoEvent]
    /\ arg = [t \in Threads |-> "none"]
    /\ old = [t \in Threads |-> "none"]
    /\ new = [t \in Threads |-> "none"]
    /\ m = [t \in Threads |-> "none"]
    /\ val = [t \in Threads |-> <<>>]

\* thread t enters dispatch_and_update(app, e); the guard is for the start
\* events only
DispatchAndUpdate(t, e) ==
    /\ du_pc[t] = "idle"
    /\ du_calls < MaxDispatchCalls
    /\ du_calls' = du_calls + 1
    /\ du_ev' = [du_ev EXCEPT ![t] = e]
    /\ du_sess' = [du_sess EXCEPT ![t] = IF state \in {"Idle", "Error"} THEN 0 ELSE started]
    /\ du_pc' = [du_pc EXCEPT ![t] = IF IsStartEvent(e) THEN "guard" ELSE "dispatch"]
    /\ UNCHANGED <<du_old, du_new, has_api_key, show_notifications, tray, notified,
                   started, seq, du_seq, tray_seq, outside_du>>

\* the handler of the global shortcut runs on thread t
OnShortcutEvent(t, shortcut_state) ==
    /\ on_shortcut_event(recording_mode, shortcut_state) # NoEvent
    /\ DispatchAndUpdate(t, on_shortcut_event(recording_mode, shortcut_state))

\* an item of the menu the tray shows is clicked, the handler runs on thread t
HandleMenuEvent(t, menu_id) ==
    /\ \E i \in DOMAIN build_menu(tray) : build_menu(tray)[i] = menu_id
    /\ handle_menu_event(menu_id, recording_mode) # NoEvent
    /\ DispatchAndUpdate(t, handle_menu_event(menu_id, recording_mode))

\* another caller passes a stage or failure event
OtherCaller(t, e) ==
    /\ e \in OtherEvents
    /\ DispatchAndUpdate(t, e)

\* the command save_api_key stores a key
SaveApiKey ==
    /\ ~has_api_key
    /\ has_api_key' = TRUE
    /\ UNCHANGED <<du_pc, du_ev, du_old, du_new, show_notifications, tray, notified,
                   started, du_sess, seq, du_seq, tray_seq, du_calls, outside_du>>

\* a start event, current_state() == Idle and no key: notify_error,
\* open_settings_window, return
GuardRejects(t) ==
    /\ du_pc[t] = "guard"
    /\ state = "Idle" /\ ~has_api_key
    /\ notified' = notified \cup
           {Note(du_ev[t], "none", "none", "Set API key in Settings first")}
    /\ du_pc' = [du_pc EXCEPT ![t] = "idle"]
    /\ du_ev' = [du_ev EXCEPT ![t] = NoEvent]
    /\ UNCHANGED <<du_old, du_new, has_api_key, show_notifications, tray, started,
                   du_sess, seq, du_seq, tray_seq, du_calls, outside_du>>

\* a start event, and current_state() is not Idle or there is a key
GuardPasses(t) ==
    /\ du_pc[t] = "guard"
    /\ ~(state = "Idle" /\ ~has_api_key)
    /\ du_pc' = [du_pc EXCEPT ![t] = "dispatch"]
    /\ UNCHANGED <<du_ev, du_old, du_new, has_api_key, show_notifications, tray,
                   notified, started, du_sess, seq, du_seq, tray_seq, du_calls,
                   outside_du>>

\* let (old, new) = shared.dispatch_with_old(&event); if old == new { return }
DispatchWithOld(t) ==
    /\ du_pc[t] = "dispatch"
    /\ LET o == state
           n == transition(state, du_ev[t], recording_mode)
       IN  /\ state' = n
           /\ IF o = n
                THEN /\ du_pc' = [du_pc EXCEPT ![t] = "idle"]
                     /\ du_ev' = [du_ev EXCEPT ![t] = NoEvent]
                     /\ UNCHANGED <<du_old, du_new, seq, du_seq, started>>
                ELSE /\ du_pc' = [du_pc EXCEPT ![t] = "update_tray"]
                     /\ du_old' = [du_old EXCEPT ![t] = o]
                     /\ du_new' = [du_new EXCEPT ![t] = n]
                     /\ seq' = seq + 1
                     /\ du_seq' = [du_seq EXCEPT ![t] = seq + 1]
                     /\ started' = IF o = "Idle" /\ n = "Recording"
                                     THEN started + 1 ELSE started
                     /\ UNCHANGED du_ev
    /\ UNCHANGED <<has_api_key, show_notifications, tray, notified, du_sess,
                   tray_seq, du_calls>>
    /\ UNCHANGED <<recording_mode, state_lock, mode_lock, pc, op, ev, arg, old, new,
                   m, val, outside_dispatch>>

\* tray::update_tray(app, new): menu, icon and tooltip are set for new
UpdateTray(t) ==
    /\ du_pc[t] = "update_tray"
    /\ tray' = du_new[t]
    /\ tray_seq' = du_seq[t]
    /\ du_pc' = [du_pc EXCEPT ![t] = "notify"]
    /\ UNCHANGED <<du_ev, du_old, du_new, has_api_key, show_notifications, notified,
                   started, du_sess, seq, du_seq, du_calls, outside_du>>

\* try_update_tray returns an Err, which update_tray logs: the tray is not set
UpdateTrayFailed(t) ==
    /\ du_pc[t] = "update_tray"
    /\ du_pc' = [du_pc EXCEPT ![t] = "notify"]
    /\ UNCHANGED <<du_ev, du_old, du_new, has_api_key, show_notifications, tray,
                   notified, started, du_sess, seq, du_seq, tray_seq, du_calls,
                   outside_du>>

\* notifications::notify_state_change(app, old, new), and the return
NotifyStateChange(t) ==
    /\ du_pc[t] = "notify"
    /\ notified' =
           IF show_notifications /\ notification_text(du_old[t], du_new[t]) # "none"
             THEN notified \cup
                    {Note(du_ev[t], du_old[t], du_new[t],
                          notification_text(du_old[t], du_new[t]))}
             ELSE notified
    /\ du_pc' = [du_pc EXCEPT ![t] = "idle"]
    /\ du_ev' = [du_ev EXCEPT ![t] = NoEvent]
    /\ du_old' = [du_old EXCEPT ![t] = "none"]
    /\ du_new' = [du_new EXCEPT ![t] = "none"]
    /\ UNCHANGED <<has_api_key, show_notifications, tray, started, du_sess, seq,
                   du_seq, tray_seq, du_calls, outside_du>>

NextDispatch ==
    \/ \E t \in Threads : \E k \in {"Pressed", "Released"} : OnShortcutEvent(t, k)
    \/ \E t \in Threads : \E id \in {"start_recording", "stop_recording", "cancel"} :
           HandleMenuEvent(t, id)
    \/ \E t \in Threads : \E e \in OtherEvents : OtherCaller(t, e)
    \/ SaveApiKey
    \/ \E t \in Threads : GuardRejects(t)
    \/ \E t \in Threads : GuardPasses(t)
    \/ \E t \in Threads : DispatchWithOld(t)
    \/ \E t \in Threads : UpdateTray(t)
    \/ \E t \in Threads : UpdateTrayFailed(t)
    \/ \E t \in Threads : NotifyStateChange(t)

SpecDispatch == InitDispatch /\ [][NextDispatch]_vars

(***************************************************************************)
(* paste_text (paste/mod.rs) with ClipboardManager (paste/clipboard.rs)    *)
(* and simulate_paste (paste/input.rs), statement by statement.  The       *)
(* clipboard holds a text, nothing, or data that is not text (an image,    *)
(* files); every call of arboard and of enigo may fail.  No other program  *)
(* writes the clipboard during the call.                                   *)
(***************************************************************************)
\* contents of the clipboard
ClipText(s) == [kind |-> "Text", text |-> s]
ClipEmpty == [kind |-> "Empty", text |-> ""]
ClipNonText == [kind |-> "NonText", text |-> ""]

\* enum SavedClipboard
SavedText(s) == [kind |-> "Text", text |-> s]
NonTextOrEmpty == [kind |-> "NonTextOrEmpty", text |-> ""]
NotSaved == [kind |-> "NotSaved", text |-> ""]

\* const CLIPBOARD_RETRY_COUNT: u32 = 3
CLIPBOARD_RETRY_COUNT == 3

\* the clipboards a call finds and the texts it inserts
Clipboards == {ClipText("copied"), ClipText(""), ClipEmpty, ClipNonText}
PasteTexts == {"dictated", "copied"}

\* a call of enigo.key(key, direction) and its result
KeyCall(key, dir, res) == [key |-> key, dir |-> dir, res |-> res]

InitPaste ==
    /\ p_pc = "idle"
    /\ p_text = ""
    /\ clipboard \in Clipboards
    /\ clip_before = clipboard
    /\ saved = NotSaved
    /\ p_attempt = 0
    /\ pressed = FALSE
    /\ keys = <<>>
    /\ sim_result = "none"
    /\ paste_status = "none"
    /\ retry_count = 0
    /\ EnhanceIdle
    /\ TranscribeIdle
    /\ ChunkIdle
    /\ DedupIdle
    /\ ValidateIdle
    /\ DetectorIdle
    /\ CaptureIdle
    /\ EncodeIdle
    /\ TrimIdle
    /\ DispatchIdle
    /\ TranscribeAudioIdle
    /\ state = "Idle"
    /\ recording_mode = "Toggle"
    /\ state_lock = 0
    /\ mode_lock = 0
    /\ pc = [t \in Threads |-> "idle"]
    /\ op = [t \in Threads |-> "none"]
    /\ ev = [t \in Threads |-> NoEvent]
    /\ arg = [t \in Threads |-> "none"]
    /\ old = [t \in Threads |-> "none"]
    /\ new = [t \in Threads |-> "none"]
    /\ m = [t \in Threads |-> "none"]
    /\ val = [t \in Threads |-> <<>>]

\* paste_text(text) is called
PasteText(text) ==
    /\ p_pc = "idle"
    /\ paste_status = "none"
    /\ p_text' = text
    /\ p_pc' = "new"
    /\ UNCHANGED <<clipboard, clip_before, saved, p_attempt, pressed, keys, sim_result,
                   paste_status, outside_paste>>

\* ClipboardManager::new() is Err: return ResultWindow
ClipboardNewFailed ==
    /\ p_pc = "new"
    /\ paste_status' = "ResultWindow"
    /\ p_pc' = "done"
    /\ UNCHANGED <<p_text, clipboard, clip_before, saved, p_attempt, pressed, keys,
                   sim_result, outside_paste>>

\* ClipboardManager::new() is Ok: saved is NotSaved
ClipboardNew ==
    /\ p_pc = "new"
    /\ saved' = NotSaved
    /\ p_attempt' = 0
    /\ p_pc' = "save"
    /\ UNCHANGED <<p_text, clipboard, clip_before, pressed, keys, sim_result,
                   paste_status, outside_paste>>

\* save: get_text is Ok(text), saved = Text(text)
SaveText ==
    /\ p_pc = "save"
    /\ clipboard.kind = "Text"
    /\ saved' = SavedText(clipboard.text)
    /\ p_pc' = "write"
    /\ UNCHANGED <<p_text, clipboard, clip_before, p_attempt, pressed, keys, sim_result,
                   paste_status, outside_paste>>

\* save: get_text is Err(ContentNotAvailable), saved = NonTextOrEmpty
SaveNonTextOrEmpty ==
    /\ p_pc = "save"
    /\ clipboard.kind # "Text"
    /\ saved' = NonTextOrEmpty
    /\ p_pc' = "write"
    /\ UNCHANGED <<p_text, clipboard, clip_before, p_attempt, pressed, keys, sim_result,
                   paste_status, outside_paste>>

\* get_text_with_retry: Err(ClipboardOccupied) before the last attempt, the
\* loop sleeps and tries again
SaveOccupiedRetry ==
    /\ p_pc = "save"
    /\ p_attempt < CLIPBOARD_RETRY_COUNT
    /\ p_attempt' = p_attempt + 1
    /\ UNCHANGED <<p_pc, p_text, clipboard, clip_before, saved, pressed, keys,
                   sim_result, paste_status, outside_paste>>

\* save is Err: ClipboardOccupied at the last attempt, or another error at
\* any attempt; paste_text logs it and goes on, saved stays NotSaved
SaveFailed(occupied) ==
    /\ p_pc = "save"
    /\ occupied => p_attempt = CLIPBOARD_RETRY_COUNT
    /\ p_pc' = "write"
    /\ UNCHANGED <<p_text, clipboard, clip_before, saved, p_attempt, pressed, keys,
                   sim_result, paste_status, outside_paste>>

\* manager.write(text) is Err: return ResultWindow
WriteFailed ==
    /\ p_pc = "write"
    /\ paste_status' = "ResultWindow"
    /\ p_pc' = "done"
    /\ UNCHANGED <<p_text, clipboard, clip_before, saved, p_attempt, pressed, keys,
                   sim_result, outside_paste>>

\* manager.write(text): set_text(text)
Write ==
    /\ p_pc = "write"
    /\ clipboard' = ClipText(p_text)
    /\ p_pc' = "enigo_new"
    /\ UNCHANGED <<p_text, clip_before, saved, p_attempt, pressed, keys, sim_result,
                   paste_status, outside_paste>>

\* simulate_paste: Enigo::new is Err
SimEnigoFailed ==
    /\ p_pc = "enigo_new"
    /\ sim_result' = "Err"
    /\ p_pc' = "sim_return"
    /\ UNCHANGED <<p_text, clipboard, clip_before, saved, p_attempt, pressed, keys,
                   paste_status, outside_paste>>

\* simulate_paste: Enigo::new is Ok, ModifierGuard::new
SimGuardNew ==
    /\ p_pc = "enigo_new"
    /\ pressed' = FALSE
    /\ p_pc' = "press"
    /\ UNCHANGED <<p_text, clipboard, clip_before, saved, p_attempt, keys, sim_result,
                   paste_status, outside_paste>>

\* guard.press()? with Press failing: pressed stays false, the function
\* returns through `?`
SimPressFailed ==
    /\ p_pc = "press"
    /\ keys' = Append(keys, KeyCall("modifier", "Press", "Err"))
    /\ sim_result' = "Err"
    /\ p_pc' = "drop"
    /\ UNCHANGED <<p_text, clipboard, clip_before, saved, p_attempt, pressed,
                   paste_status, outside_paste>>

\* guard.press()
SimPress ==
    /\ p_pc = "press"
    /\ keys' = Append(keys, KeyCall("modifier", "Press", "Ok"))
    /\ pressed' = TRUE
    /\ p_pc' = "click"
    /\ UNCHANGED <<p_text, clipboard, clip_before, saved, p_attempt, sim_result,
                   paste_status, outside_paste>>

\* the click of V fails: the function returns through `?`
SimClickFailed ==
    /\ p_pc = "click"
    /\ keys' = Append(keys, KeyCall("v", "Click", "Err"))
    /\ sim_result' = "Err"
    /\ p_pc' = "drop"
    /\ UNCHANGED <<p_text, clipboard, clip_before, saved, p_attempt, pressed,
                   paste_status, outside_paste>>

\* guard.enigo.key(paste_v_key(), Direction::Click)
SimClick ==
    /\ p_pc = "click"
    /\ keys' = Append(keys, KeyCall("v", "Click", "Ok"))
    /\ p_pc' = "release"
    /\ UNCHANGED <<p_text, clipboard, clip_before, saved, p_attempt, pressed,
                   sim_result, paste_status, outside_paste>>

\* guard.release()? with Release failing: pressed stays true
SimReleaseFailed ==
    /\ p_pc = "release"
    /\ keys' = Append(keys, KeyCall("modifier", "Release", "Err"))
    /\ sim_result' = "Err"
    /\ p_pc' = "drop"
    /\ UNCHANGED <<p_text, clipboard, clip_before, saved, p_attempt, pressed,
                   paste_status, outside_paste>>

\* guard.release()
SimRelease ==
    /\ p_pc = "release"
    /\ keys' = Append(keys, KeyCall("modifier", "Release", "Ok"))
    /\ pressed' = FALSE
    /\ sim_result' = "Ok"
    /\ p_pc' = "drop"
    /\ UNCHANGED <<p_text, clipboard, clip_before, saved, p_attempt, paste_status,
                   outside_paste>>

\* faulty variant of SimDrop: the guard is dropped without a look at pressed
SimDrop_NoRelease(res) ==
    /\ p_pc = "drop"
    /\ res = "Ok"
    /\ p_pc' = "sim_return"
    /\ UNCHANGED <<p_text, clipboard, clip_before, saved, p_attempt, pressed, keys,
                   sim_result, paste_status, outside_paste>>

\* the function returns and the guard is dropped: Release when pressed,
\* with result res, which is only logged
SimDrop(res) ==
    /\ p_pc = "drop"
    /\ IF pressed
         THEN keys' = Append(keys, KeyCall("modifier", "Release", res))
         ELSE res = "Ok" /\ keys' = keys
    /\ p_pc' = "sim_return"
    /\ UNCHANGED <<p_text, clipboard, clip_before, saved, p_attempt, pressed,
                   sim_result, paste_status, outside_paste>>

\* simulate_paste() is Err: return ClipboardOnly
PasteClipboardOnly ==
    /\ p_pc = "sim_return"
    /\ sim_result = "Err"
    /\ paste_status' = "ClipboardOnly"
    /\ p_pc' = "done"
    /\ UNCHANGED <<p_text, clipboard, clip_before, saved, p_attempt, pressed, keys,
                   sim_result, outside_paste>>

\* simulate_paste() is Ok: thread::sleep(RESTORE_DELAY_MS)
PasteSleep ==
    /\ p_pc = "sim_return"
    /\ sim_result = "Ok"
    /\ p_pc' = "restore"
    /\ UNCHANGED <<p_text, clipboard, clip_before, saved, p_attempt, pressed, keys,
                   sim_result, paste_status, outside_paste>>

\* manager.restore() with saved = Text(content): set_text(content); an Err
\* is logged; return Pasted
RestoreText(ok) ==
    /\ p_pc = "restore"
    /\ saved.kind = "Text"
    /\ clipboard' = IF ok THEN ClipText(saved.text) ELSE clipboard
    /\ saved' = NotSaved
    /\ paste_status' = "Pasted"
    /\ p_pc' = "done"
    /\ UNCHANGED <<p_text, clip_before, p_attempt, pressed, keys, sim_result,
                   outside_paste>>

\* manager.restore() with saved = NonTextOrEmpty or NotSaved: the clipboard
\* is not touched; return Pasted
RestoreSkipped ==
    /\ p_pc = "restore"
    /\ saved.kind # "Text"
    /\ saved' = NotSaved
    /\ paste_status' = "Pasted"
    /\ p_pc' = "done"
    /\ UNCHANGED <<p_text, clipboard, clip_before, p_attempt, pressed, keys,
                   sim_result, outside_paste>>

NextPaste ==
    \/ \E text \in PasteTexts : PasteText(text)
    \/ ClipboardNewFailed
    \/ ClipboardNew
    \/ SaveText
    \/ SaveNonTextOrEmpty
    \/ SaveOccupiedRetry
    \/ \E occupied \in BOOLEAN : SaveFailed(occupied)
    \/ WriteFailed
    \/ Write
    \/ SimEnigoFailed
    \/ SimGuardNew
    \/ SimPressFailed
    \/ SimPress
    \/ SimClickFailed
    \/ SimClick
    \/ SimReleaseFailed
    \/ SimRelease
    \/ \E res \in {"Ok", "Err"} : SimDrop(res)
    \/ PasteClipboardOnly
    \/ PasteSleep
    \/ \E ok \in BOOLEAN : RestoreText(ok)
    \/ RestoreSkipped

SpecPaste == InitPaste /\ [][NextPaste]_vars

(***************************************************************************)
(* Liveness: a thread inside a method runs it to its end whenever it is    *)
(* not blocked on a mutex (the scheduler runs every runnable thread, and   *)
(* no method waits for anything but the two mutexes).                      *)
(***************************************************************************)
Internal(t) ==
    \/ LockMode(t) \/ ReadOld(t) \/ Compute(t) \/ WriteNew(t)
    \/ DropMode(t) \/ DropState(t)
    \/ CsRead(t) \/ CsDrop(t)
    \/ RmRead(t) \/ RmDrop(t)
    \/ SmWrite(t) \/ SmDrop(t)

SpecLive == Init /\ [][Next]_vars /\ \A t \in Threads : WF_vars(Internal(t))

\* the same, and a thread that waits for the mode mutex gets it when the
\* mutex is released again and again (the lock is not barged forever)
SpecLockFair ==
    /\ Init /\ [][Next]_vars
    /\ \A t \in Threads : WF_vars(Internal(t)) /\ SF_vars(LockMode(t))

(***************************************************************************)
(* Vocabulary of the properties.                                           *)
(***************************************************************************)
\* thread t has evaluated transition(old, event, mode) in this call
Computed(t) == pc[t] \in {"write", "drop_mode", "drop_state"}

\* thread t has stored its new state and still holds the state mutex
Committed(t) == pc[t] \in {"drop_mode", "drop_state"}

\* the step in which thread t stores its new state
Commit(t) == pc[t] = "write" /\ pc'[t] = "drop_mode"

Processing == {"Transcribing", "Enhancing", "Pasting"}

\* the start-record event of a mode
IsStart(e, mode) ==
    \/ e.kind = "HotkeyPressed" /\ mode = "Toggle"
    \/ e.kind = "HotkeyDown" /\ mode = "PushToTalk"

\* the stop-record event of a mode
IsStop(e, mode) ==
    \/ e.kind = "HotkeyPressed" /\ mode = "Toggle"
    \/ e.kind = "HotkeyUp" /\ mode = "PushToTalk"

\* the (state, event kind, mode) combinations that have a rule in the
\* transition table
TransitionRules ==
    {<<"Idle", "HotkeyPressed", "Toggle">>,
     <<"Recording", "HotkeyPressed", "Toggle">>,
     <<"Idle", "HotkeyDown", "PushToTalk">>,
     <<"Recording", "HotkeyUp", "PushToTalk">>,
     <<"Recording", "SilenceTimeout", "Toggle">>,
     <<"Error", "ErrorAcknowledged", "Toggle">>,
     <<"Error", "ErrorAcknowledged", "PushToTalk">>,
     <<"Transcribing", "TranscriptionDone", "Toggle">>,
     <<"Transcribing", "TranscriptionDone", "PushToTalk">>,
     <<"Enhancing", "EnhancementDone", "Toggle">>,
     <<"Enhancing", "EnhancementDone", "PushToTalk">>,
     <<"Pasting", "PasteDone", "Toggle">>,
     <<"Pasting", "PasteDone", "PushToTalk">>,
     <<"Recording", "MaxDurationTimeout", "Toggle">>,
     <<"Recording", "MaxDurationTimeout", "PushToTalk">>}
    \cup {<<s, k, mode>> : s \in Processing, k \in {"HotkeyPressed", "Cancel"},
                          mode \in RecordingMode}
    \cup {<<s, "Failed", mode>> : s \in AppState, mode \in RecordingMode}

C2_FailedGoesToError ==
    \A t \in Threads :
        /\ Computed(t) /\ ev[t].kind = "Failed" => new[t] = "Error"
        /\ Committed(t) /\ ev[t].kind = "Failed" =>
              /\ state = "Error"
              /\ Returned(t)[Len(Returned(t))] = "Error"

\* dispatch(Failed) committed while the pipeline was enhancing
C2_Witness ==
    \E t \in Threads :
        /\ pc[t] = "drop_state"
        /\ op[t] = "dispatch"
        /\ old[t] = "Enhancing"
        /\ ev[t].kind = "Failed"
        /\ state = "Error"

(***************************************************************************)
(* C3: the state leaves Error only by a step that commits                  *)
(* ErrorAcknowledged, and then it becomes Idle; a commit of any other      *)
(* event in Error leaves the state Error.                                  *)
(***************************************************************************)
C3_ErrorLeftOnlyByAcknowledge ==
    [][/\ (state = "Error" /\ state' # "Error") =>
              /\ state' = "Idle"
              /\ \E t \in Threads : Commit(t) /\ ev[t].kind = "ErrorAcknowledged"
       /\ \A t \in Threads :
              (Commit(t) /\ state = "Error" /\ ev[t].kind # "ErrorAcknowledged")
                  => state' = "Error"]_vars

\* an acknowledged error: the state went from Error to Idle
C3_Witness ==
    \E t \in Threads :
        /\ pc[t] = "drop_mode"
        /\ old[t] = "Error"
        /\ ev[t].kind = "ErrorAcknowledged"
        /\ state = "Idle"

(***************************************************************************)
(* C4: in Transcribing, Enhancing and Pasting, Cancel and the stop-record  *)
(* event of the active mode each move the state to Idle.                   *)
(***************************************************************************)
C4_ProcessingAbortedByStop ==
    \A t \in Threads :
        (/\ Computed(t)
         /\ old[t] \in Processing
         /\ (ev[t].kind = "Cancel" \/ IsStop(ev[t], m[t])))
            => new[t] = "Idle"

(***************************************************************************)
(* C5: from Recording the result is Transcribing exactly for HotkeyPressed *)
(* in Toggle mode, HotkeyUp in PushToTalk mode, SilenceTimeout in Toggle   *)
(* mode and MaxDurationTimeout in either mode; every other event but       *)
(* Failed leaves Recording.                                                *)
(***************************************************************************)
C5_RecordingStops ==
    \A t \in Threads :
        (Computed(t) /\ old[t] = "Recording") =>
            LET stops == \/ IsStop(ev[t], m[t])
                         \/ ev[t].kind = "SilenceTimeout" /\ m[t] = "Toggle"
                         \/ ev[t].kind = "MaxDurationTimeout"
            IN  /\ new[t] = "Transcribing" <=> stops
                /\ (~stops /\ ev[t].kind # "Failed") => new[t] = "Recording"

\* a silence timeout in push-to-talk mode was ignored while recording
C5_Witness ==
    \E t \in Threads :
        /\ pc[t] = "drop_mode"
        /\ old[t] = "Recording"
        /\ ev[t].kind = "SilenceTimeout"
        /\ m[t] = "PushToTalk"
        /\ state = "Recording"

(***************************************************************************)
(* C6: Recording is entered only from Idle and only by the start event of  *)
(* the mode (HotkeyPressed in Toggle, HotkeyDown in PushToTalk); a start   *)
(* event committed in any other state never leads into Recording from a    *)
(* state that is not Recording.                                            *)
(***************************************************************************)
C6_RecordingOnlyFromIdle ==
    [][/\ (state # "Recording" /\ state' = "Recording") =>
              /\ state = "Idle"
              /\ \E t \in Threads : Commit(t) /\ IsStart(ev[t], m[t])
       /\ \A t \in Threads :
              (Commit(t) /\ state # "Idle" /\ IsStart(ev[t], m[t])) =>
                  (state' = "Recording" => state = "Recording")]_vars

\* a recording was started by key-down in push-to-talk mode
C6_Witness ==
    \E t \in Threads :
        /\ pc[t] = "drop_mode"
        /\ old[t] = "Idle"
        /\ ev[t].kind = "HotkeyDown"
        /\ m[t] = "PushToTalk"
        /\ state = "Recording"

(***************************************************************************)
(* C7: the stages are entered in order.  Transcribing is entered only from *)
(* Recording, Enhancing only from Transcribing by TranscriptionDone,       *)
(* Pasting only from Enhancing by EnhancementDone; PasteDone changes the   *)
(* state only from Pasting, to Idle; a completion event committed in a     *)
(* state that is not its stage leaves the state unchanged.                 *)
(***************************************************************************)
StageOf(k) ==
    CASE k = "TranscriptionDone" -> "Transcribing"
      [] k = "EnhancementDone" -> "Enhancing"
      [] k = "PasteDone" -> "Pasting"
      [] OTHER -> "none"

C7_StagesInOrder ==
    [][/\ (state # "Transcribing" /\ state' = "Transcribing") => state = "Recording"
       /\ (state # "Enhancing" /\ state' = "Enhancing") =>
              /\ state = "Transcribing"
              /\ \E t \in Threads : Commit(t) /\ ev[t].kind = "TranscriptionDone"
       /\ (state # "Pasting" /\ state' = "Pasting") =>
              /\ state = "Enhancing"
              /\ \E t \in Threads : Commit(t) /\ ev[t].kind = "EnhancementDone"
       /\ \A t \in Threads :
              /\ (Commit(t) /\ ev[t].kind = "PasteDone" /\ state' # state) =>
                     (state = "Pasting" /\ state' = "Idle")
              /\ (Commit(t) /\ StageOf(ev[t].kind) \notin {"none", state}) =>
                     state' = state]_vars

\* the pipeline advanced from Enhancing to Pasting
C7_Witness ==
    \E t \in Threads :
        /\ pc[t] = "drop_mode"
        /\ old[t] = "Enhancing"
        /\ ev[t].kind = "EnhancementDone"
        /\ state = "Pasting"

(***************************************************************************)
(* C8: concurrent dispatch / dispatch_with_old calls are linearizable at   *)
(* the step that stores the new state.  The state changes only in such     *)
(* steps; the old state a call observed is the state the previous commit   *)
(* left (Idle before the first one); the stored state is                   *)
(* transition(old, event, mode) for the one value the mode has during the  *)
(* whole critical section; until the call drops the state mutex the state  *)
(* is still the one it stored and the pair it returns is (old, new);       *)
(* current_state() returns the state of the last commit.                   *)
(***************************************************************************)
C8_DispatchLinearizable ==
    [][/\ state' # state => \E t \in Threads : Commit(t)
       /\ \A t \in Threads :
              /\ Commit(t) =>
                     /\ old[t] = state
                     /\ m[t] = recording_mode
                     /\ new[t] = transition(old[t], ev[t], m[t])
                     /\ state' = new[t]
              /\ Committed(t)' =>
                     /\ state' = new'[t]
                     /\ new'[t] = transition(old'[t], ev'[t], m'[t])
                     /\ Returned(t)' = IF op'[t] = "dispatch"
                                         THEN <<state'>>
                                         ELSE <<old'[t], state'>>
              /\ pc'[t] = "cs_drop" => val'[t] = <<state'>>]_vars

\* a dispatcher has committed and still holds the state mutex while another
\* thread is changing the recording mode
C8_Witness ==
    \E t, u \in Threads :
        /\ pc[t] = "drop_state"
        /\ op[t] = "dispatch_with_old"
        /\ old[t] # new[t]
        /\ pc[u] = "sm_drop"
        /\ recording_mode # m[t]

(***************************************************************************)
(* C9: no state is a dead end.  If exit events of the current state keep   *)
(* being delivered (a stop of the mode or MaxDurationTimeout in Recording, *)
(* the completion event of the stage in Transcribing, Enhancing, Pasting,  *)
(* ErrorAcknowledged in Error), the state is Idle again and again,         *)
(* whatever other events are dispatched in between.                        *)
(***************************************************************************)
IsExit(s, e, mode) ==
    \/ s = "Recording" /\ (IsStop(e, mode) \/ e.kind = "MaxDurationTimeout")
    \/ s \in Processing /\ StageOf(e.kind) = s
    \/ s = "Error" /\ e.kind = "ErrorAcknowledged"

ExitDelivered ==
    \E t \in Threads : Commit(t) /\ IsExit(state, ev[t], m[t])

C9_NoDeadEnd == ([]<><<ExitDelivered>>_vars) => []<>(state = "Idle")

\* the paste completed and the machine is back in Idle
C9_Witness ==
    \E t \in Threads :
        /\ pc[t] = "drop_mode"
        /\ old[t] = "Pasting"
        /\ IsExit(old[t], ev[t], m[t])
        /\ state = "Idle"

(***************************************************************************)
(* C10: do_enhance never returns an error.  Whenever a call has returned,  *)
(* its Result is Ok; after a successful response the text is the result of *)
(* the Validator, which is the trimmed text of the server, cut to the      *)
(* budget when too long, or the raw text; after a terminal failure (401,   *)
(* other non-success status below 500, unparsable or empty response, the   *)
(* sixth 429, a transient failure with no retry left) the text is the raw  *)
(* text, unchanged.                                                        *)
(***************************************************************************)
C10_EnhanceNeverFails ==
    e_pc = "done" =>
        /\ e_result.tag = "Ok"
        /\ e_last.tag = "Ok" =>
              /\ e_result.text = validate_enhancement(e_raw, e_last.text).text
              /\ e_result.text \in
                    {e_raw, Trim(e_last.text),
                     TakeChars(Trim(e_last.text), MAX_ENHANCED_CHARS)}
        /\ e_last.tag = "Err" =>
              /\ e_result.text = e_raw
              /\ \/ e_last.err \in {"AuthFailed", "InvalidResponse"}
                 \/ e_last.err = "ApiError" /\ e_last.status < 500
                 \/ e_last.err = "RateLimited"
                       /\ rate_limit_retries = MAX_RATE_LIMIT_RETRIES + 1
                 \/ is_retryable(e_last) /\ retries_left = 0

\* a call returned the raw text of three words after a 401
C10_Witness ==
    /\ e_pc = "done"
    /\ e_last.err = "AuthFailed"
    /\ e_raw = Words("a", 3)
    /\ e_result = OkText(e_raw)

(***************************************************************************)
(* C11: an authentication failure (HTTP 401) is terminal for both clients  *)
(* at whatever point of the call it arrives: the step that receives it     *)
(* ends the call without a sleep, whatever retries_left and                *)
(* rate_limit_retries are; do_transcribe returns Err(AuthFailed),          *)
(* do_enhance returns Ok(raw_text); a call that has ended sends no         *)
(* request.                                                                *)
(***************************************************************************)
C11_AuthFailureTerminal ==
    [][ /\ (s_requests' = s_requests + 1 /\ s_last'.err = "AuthFailed")
             => /\ s_pc' = "done"
                /\ s_result' = Err("AuthFailed")
                /\ s_sleep' = s_sleep
        /\ (e_requests' = e_requests + 1 /\ e_last'.err = "AuthFailed")
             => /\ e_pc' = "done"
                /\ e_result' = OkText(e_raw)
                /\ e_sleep' = e_sleep
        /\ s_pc = "done" => s_pc' = "idle" /\ s_requests' = 0
        /\ e_pc = "done" => e_pc' = "idle" /\ e_requests' = 0 ]_vars

\* a 401 that arrives after a backoff retry and a rate-limit retry, with
\* retries of both kinds still available
C11_Witness ==
    /\ s_result = Err("AuthFailed")
    /\ s_requests >= 3
    /\ s_retries_left >= 1
    /\ s_rate_limit_retries \in 1..(MAX_RATE_LIMIT_RETRIES - 1)
    /\ s_sleep > 0

(***************************************************************************)
(* C12: a 429 is retried after a sleep of the wait the server suggested,   *)
(* at most MAX_RATE_LIMIT_RETRIES = 5 times in a call; the sixth 429 of    *)
(* the call ends it whatever retries_left is (do_transcribe returns the    *)
(* RateLimited error, do_enhance the raw text).  The two counters are      *)
(* independent: a 429 and its retry leave retries_left alone, a transient  *)
(* failure and its retry leave rate_limit_retries alone.                   *)
(***************************************************************************)
C12_RateLimitRetries ==
    [][ /\ (s_requests' = s_requests + 1 /\ s_last'.err = "RateLimited")
             => /\ s_rate_limit_retries' = s_rate_limit_retries + 1
                /\ s_retries_left' = s_retries_left
                /\ IF s_rate_limit_retries < 5
                     THEN /\ s_pc' = "sleep_rate_limit"
                          /\ s_sleep' = s_last'.retry_after_sec
                     ELSE /\ s_pc' = "done"
                          /\ s_result'.err = "RateLimited"
        /\ (e_requests' = e_requests + 1 /\ e_last'.err = "RateLimited")
             => /\ rate_limit_retries' = rate_limit_retries + 1
                /\ retries_left' = retries_left
                /\ IF rate_limit_retries < 5
                     THEN /\ e_pc' = "sleep_rate_limit"
                          /\ e_sleep' = e_last'.retry_after_sec
                     ELSE /\ e_pc' = "done"
                          /\ e_result' = OkText(e_raw)
        /\ s_pc = "sleep_rate_limit"
             => s_pc' = "send" /\ s_retries_left' = s_retries_left
        /\ e_pc = "sleep_rate_limit"
             => e_pc' = "send" /\ retries_left' = retries_left
        /\ (s_pc \in {"send", "sleep_backoff"} /\ s_last'.err # "RateLimited")
             => s_rate_limit_retries' = s_rate_limit_retries
        /\ (e_pc \in {"send", "sleep_backoff"} /\ e_last'.err # "RateLimited")
             => rate_limit_retries' = rate_limit_retries ]_vars

\* the sixth 429 of a call of do_enhance that also made a backoff retry and
\* has a generic retry left
C12_Witness ==
    /\ e_pc = "done"
    /\ rate_limit_retries = 6
    /\ retries_left >= 1
    /\ retries_left < retry_count
    /\ e_requests = 7
    /\ e_result = OkText(e_raw)

(***************************************************************************)
(* C13: transient failures (connection error, timeout, status >= 500) are  *)
(* retried until the retry budget is used up and no further.  A call in    *)
(* which every response was a transient failure has sent exactly           *)
(* retry_count + 1 requests when it ends, and then do_transcribe returns   *)
(* the last error and do_enhance the raw text; with retry_count = 0 there  *)
(* is no retry; a success on any attempt ends the call with the result of  *)
(* that attempt.                                                           *)
(***************************************************************************)
C13_TransientRetriedWithinBudget ==
    /\ (s_pc # "idle" /\ s_rate_limit_retries = 0)
         => s_requests <= retry_count + 1
    /\ (e_pc # "idle" /\ rate_limit_retries = 0)
         => e_requests <= retry_count + 1
    /\ (s_pc = "done" /\ s_rate_limit_retries = 0 /\ stt_is_retryable(s_last))
         => s_requests = retry_count + 1 /\ s_result = s_last
    /\ (e_pc = "done" /\ rate_limit_retries = 0 /\ is_retryable(e_last))
         => e_requests = retry_count + 1 /\ e_result = OkText(e_raw)
    /\ retry_count = 0 => s_pc # "sleep_backoff" /\ e_pc # "sleep_backoff"
    /\ s_last.tag = "Ok" => s_pc = "done" /\ s_result = s_last
    /\ e_last.tag = "Ok"
         => /\ e_pc = "done"
            /\ e_result = OkText(validate_enhancement(e_raw, e_last.text).text)

\* a call of do_transcribe with a budget of two retries in which all three
\* responses were transient failures, the last one a status 503
C13_Witness ==
    /\ retry_count = 2
    /\ s_pc = "done"
    /\ s_rate_limit_retries = 0
    /\ s_requests = 3
    /\ s_sleep = 2
    /\ s_result = ApiError(503)

(***************************************************************************)
(* C14: the sleep before the k-th generic retry of a call (k = 0 for the   *)
(* first) is min(2^k, 16) seconds: 1, 2, 4, 8, 16, 16, ..., for every      *)
(* retry_count.  k counts the transient failures of the call before the    *)
(* current one, the 429s of the call not included.  retries_left stays in  *)
(* 0..retry_count, so that attempt = retry_count - retries_left and        *)
(* retries_left -= 1 do not underflow, and attempt + 1 stays within        *)
(* retry_count.                                                            *)
(***************************************************************************)
C14_BackoffSchedule ==
    /\ s_retries_left \in 0..retry_count
    /\ retries_left \in 0..retry_count
    /\ s_pc = "sleep_backoff"
         => LET k == s_requests - s_rate_limit_retries - 1
            IN  /\ s_retries_left >= 1
                /\ k = retry_count - s_retries_left
                /\ k <= 4 => s_sleep = 2 ^ k
                /\ k > 4 => s_sleep = 16
    /\ e_pc = "sleep_backoff"
         => LET k == e_requests - rate_limit_retries - 1
            IN  /\ retries_left >= 1
                /\ k = retry_count - retries_left
                /\ k <= 4 => e_sleep = 2 ^ k
                /\ k > 4 => e_sleep = 16

\* the sleep before the retry k = 64 of do_transcribe, where the shift is
\* as wide as the u64, in a call that also retried 429s
C14_Witness ==
    /\ s_pc = "sleep_backoff"
    /\ s_requests - s_rate_limit_retries - 1 = U64_BITS
    /\ s_rate_limit_retries >= 2
    /\ s_sleep = 16

(***************************************************************************)
(* C15: a failure that is neither a 401, a 429 nor transient ends the call *)
(* with the request that met it, without retry and without sleep.  Such    *)
(* failures are a non-success status below 500 other than 401 and 429      *)
(* (ApiError) and a success status with a body that does not parse or      *)
(* whose text is empty or whitespace only (InvalidResponse).               *)
(* do_transcribe returns that error, do_enhance the raw text.              *)
(***************************************************************************)
C15_OtherFailuresTerminal ==
    [][ /\ \A resp \in SttResponses :
             resp.kind = "http" =>
               /\ (resp.status < 500 /\ resp.status \notin {401, 429}
                     /\ (resp.status < 200 \/ resp.status > 299))
                    => stt_send_request(resp) = ApiError(resp.status)
               /\ (resp.status \in 200..299
                     /\ (~resp.json
                         \/ \A i \in 1..Len(resp.text) : resp.text[i].c = " "))
                    => stt_send_request(resp) = Err("InvalidResponse")
        /\ \A resp \in Responses :
             resp.kind = "http" =>
               /\ (resp.status < 500 /\ resp.status \notin {401, 429}
                     /\ (resp.status < 200 \/ resp.status > 299))
                    => send_request(resp) = ApiError(resp.status)
               /\ (resp.status \in 200..299
                     /\ (~resp.json
                         \/ \A i \in 1..Len(resp.output) :
                              \A j \in 1..Len(resp.output[i]) :
                                \A k \in 1..Len(resp.output[i][j]) :
                                  resp.output[i][j][k].c = " "))
                    => send_request(resp) = Err("InvalidResponse")
        /\ (/\ s_requests' = s_requests + 1
            /\ \/ s_last'.err = "InvalidResponse"
               \/ s_last'.err = "ApiError" /\ s_last'.status < 500)
             => /\ s_pc' = "done"
                /\ s_result' = s_last'
                /\ s_sleep' = s_sleep
        /\ (/\ e_requests' = e_requests + 1
            /\ \/ e_last'.err = "InvalidResponse"
               \/ e_last'.err = "ApiError" /\ e_last'.status < 500)
             => /\ e_pc' = "done"
                /\ e_result' = OkText(e_raw)
                /\ e_sleep' = e_sleep ]_vars

\* the first request of a call of do_enhance with a budget of two retries
\* met such a failure
C15_Witness ==
    /\ retry_count = 2
    /\ e_pc = "done"
    /\ e_requests = 1
    /\ e_last \in {Err("InvalidResponse"), ApiError(404)}
    /\ e_sleep = 0
    /\ e_result = OkText(e_raw)

(***************************************************************************)
(* C16: every call of do_transcribe / do_enhance terminates, whatever the  *)
(* server answers, and sends at most 1 + retry_count + 5 requests: the     *)
(* first attempt, at most retry_count generic retries and at most 5        *)
(* rate-limit retries.                                                     *)
(***************************************************************************)
C16_CallTerminates ==
    /\ [](s_requests <= 1 + retry_count + 5)
    /\ [](e_requests <= 1 + retry_count + 5)
    /\ [](s_requests - s_rate_limit_retries <= 1 + retry_count)
    /\ [](e_requests - rate_limit_retries <= 1 + retry_count)
    /\ [](s_rate_limit_retries <= 6 /\ rate_limit_retries <= 6)
    /\ (s_pc = "send") ~> (s_pc = "done")
    /\ (e_pc = "send") ~> (e_pc = "done")

\* a call of do_transcribe that ended with its request number
\* 1 + retry_count + 5, after two generic and five rate-limit retries
C16_Witness ==
    /\ retry_count = 2
    /\ s_pc = "done"
    /\ s_requests = 1 + retry_count + 5
    /\ s_retries_left = 0
    /\ s_rate_limit_retries >= 5

(***************************************************************************)
(* C17: the chunks chunk_audio returns cover the input without gaps.  With *)
(* the chunks in order as ranges [start_i, end_i) of the source: start_0   *)
(* is 0, the last end is samples.len(), start_(i+1) <= end_i, and every    *)
(* sample of the input lies in at least one chunk.  (A chunk of the model  *)
(* is the range it copies, so that its samples are those of its range.)    *)
(***************************************************************************)
C17_ChunksCoverInput ==
    c_pc = "done" =>
      /\ Len(chunks) >= 1
      /\ chunks[1].start = 0
      /\ chunks[Len(chunks)].end = samples.len
      /\ \A i \in 1..Len(chunks) :
           0 <= chunks[i].start /\ chunks[i].start <= chunks[i].end
                                /\ chunks[i].end <= samples.len
      /\ \A i \in 1..(Len(chunks) - 1) : chunks[i + 1].start <= chunks[i].end
      /\ \A k \in 0..(samples.len - 1) :
           \E i \in 1..Len(chunks) : chunks[i].start <= k /\ k < chunks[i].end

\* a recording with quiet stretches returned as three or more chunks, the
\* second overlapping the first
C17_Witness ==
    /\ c_pc = "done"
    /\ samples.period > 0
    /\ Len(chunks) >= 3
    /\ chunks[2].start < chunks[1].end
    /\ chunks[2].start > 0

(***************************************************************************)
(* C18: chunk_audio does not loop indefinitely.  With sample_rate = 0 or   *)
(* max_chunk_sec = 0 it returns the whole input as one chunk; with         *)
(* sample_rate >= 1 and max_chunk_sec >= 1 every iteration of its loop     *)
(* that cuts a chunk either returns or leaves a strictly greater offset.   *)
(***************************************************************************)
C18_ChunkLoopProgress ==
    [][ /\ (c_pc = "call" /\ (sample_rate = 0 \/ max_chunk_sec = 0))
             => c_pc' = "done" /\ chunks' = <<AudioChunk(0, samples.len)>>
        /\ (/\ c_pc = "loop" /\ sample_rate >= 1 /\ max_chunk_sec >= 1
            /\ Len(chunks') = Len(chunks) + 1)
             => c_pc' = "done" \/ (c_pc' = "loop" /\ offset' > offset) ]_vars

(***************************************************************************)
(* C19: when chunk_audio returns more than one chunk, no chunk, final or   *)
(* not, is shorter than MIN_CHUNK_SEC * sample_rate samples.               *)
(***************************************************************************)
C19_NoShortChunk ==
    (c_pc = "done" /\ Len(chunks) > 1)
      => \A i \in 1..Len(chunks) :
           chunks[i].end - chunks[i].start >= min_chunk_samples

(***************************************************************************)
(* C20: deduplicate_overlap_texts joins the transcripts in order with one  *)
(* space.  Before a transcript is appended its first n words are dropped,  *)
(* n being the largest number in 2..5, within the word counts of both      *)
(* texts, such that the last n words of the accumulated text equal the     *)
(* first n words of the transcript ignoring case, and 0 when there is no   *)
(* such number (one shared word is no overlap).  The empty list gives the  *)
(* empty string, a single transcript is returned as it is.                 *)
(***************************************************************************)
\* char::to_uppercase
Upper(c) == IF c = "a" THEN "A" ELSE IF c = "b" THEN "B" ELSE c

\* the characters of a string, one by one
RECURSIVE Letters(_)
Letters(t) ==
    IF t = <<>> THEN <<>>
    ELSE IF t[1].n = 1 THEN <<t[1].c>> \o Letters(Tail(t))
    ELSE <<t[1].c>> \o Letters(<<Run(t[1].c, t[1].n - 1)>> \o Tail(t))

\* two words are equal ignoring case
SameIgnoringCase(u, v) ==
    /\ Len(Letters(u)) = Len(Letters(v))
    /\ \A i \in 1..Len(Letters(u)) : Upper(Letters(u)[i]) = Upper(Letters(v)[i])

\* the numbers of words that the end of prev shares with the start of next
SharedWords(prev, next) ==
    LET pw == split_whitespace(prev)
        nw == split_whitespace(next)
    IN  {n \in 2..5 :
           /\ n <= Len(pw) /\ n <= Len(nw)
           /\ \A i \in 1..n : SameIgnoringCase(pw[Len(pw) - n + i], nw[i])}

LargestShared(prev, next) ==
    IF SharedWords(prev, next) = {} THEN 0
    ELSE CHOOSE n \in SharedWords(prev, next) :
             \A k \in SharedWords(prev, next) : k <= n

C20_DedupDropsSharedWords ==
    [][ /\ (d_pc = "call" /\ texts = <<>>)
             => d_pc' = "done" /\ result' = <<>>
        /\ (d_pc = "call" /\ Len(texts) = 1)
             => d_pc' = "done" /\ result' = texts[1]
        /\ (d_pc = "call" /\ Len(texts) > 1)
             => result' = texts[1] /\ next_index' = 2
        /\ (d_pc = "loop" /\ next_index <= Len(texts))
             => LET next == texts[next_index]
                    n == LargestShared(result, next)
                    kept == Skip(split_whitespace(next), n)
                IN  /\ next_index' = next_index + 1
                    /\ result' =
                         IF n = 0
                           THEN Concat(Concat(result, <<Run(" ", 1)>>), next)
                         ELSE IF kept = <<>> THEN result
                         ELSE Concat(Concat(result, <<Run(" ", 1)>>),
                                     JoinWords(kept))
        /\ (d_pc = "loop" /\ next_index > Len(texts))
             => d_pc' = "done" /\ result' = result ]_vars

\* "B a b" and "b a B b" share three words ignoring case: "B a b b"
C20_Witness ==
    /\ d_pc = "done"
    /\ Len(texts) = 2
    /\ texts[1] = JoinWords(<<Word(<<"B">>), Word(<<"a">>), Word(<<"b">>)>>)
    /\ texts[2] = JoinWords(<<Word(<<"b">>), Word(<<"a">>), Word(<<"B">>),
                              Word(<<"b">>)>>)
    /\ result = JoinWords(<<Word(<<"B">>), Word(<<"a">>), Word(<<"b">>),
                            Word(<<"b">>)>>)

(***************************************************************************)
(* C21: validate_enhancement decides by the word counts r of raw and e of  *)
(* the candidate.  A raw text that is empty or only whitespace gives       *)
(* Fallback, and so does such a candidate; otherwise, for r > 2, the       *)
(* result is Fallback exactly when 10e < 3r or 2e > 3r (so e/r = 0.3 and   *)
(* e/r = 1.5 are accepted), and for r <= 2 the candidate is accepted.      *)
(* Fallback always carries raw as it was given.                            *)
(***************************************************************************)
IsBlank(t) == \A i \in DOMAIN t : IsWhitespace(t[i].c)

C21_ValidatorDecidesByWordCounts ==
    v_pc = "done" =>
        LET r == count_words(v_raw)
            e == count_words(v_enhanced)
        IN  /\ v_result.tag \in {"Ok", "Fallback"}
            /\ v_result.tag = "Fallback" => v_result.text = v_raw
            /\ IsBlank(v_raw) => v_result.tag = "Fallback"
            /\ IsBlank(v_enhanced) => v_result.tag = "Fallback"
            /\ (~IsBlank(v_raw) /\ ~IsBlank(v_enhanced) /\ r > 2) =>
                   (v_result.tag = "Fallback" <=> (10 * e < 3 * r \/ 2 * e > 3 * r))
            /\ (~IsBlank(v_raw) /\ ~IsBlank(v_enhanced) /\ r <= 2) =>
                   v_result.tag = "Ok"

\* a candidate of 3 words for a raw text of 10 words (e/r = 0.3) was accepted
C21_Witness ==
    /\ v_pc = "done"
    /\ count_words(v_raw) = 10
    /\ count_words(v_enhanced) = 3
    /\ v_result.tag = "Ok"

(***************************************************************************)
(* C22: whenever validate_enhancement returns Ok(text), text.len() is at   *)
(* most MAX_ENHANCED_CHARS, for candidates of multi-byte characters too,   *)
(* and a candidate within the budget is accepted as trimmed.               *)
(***************************************************************************)
C22_AcceptedWithinBudget ==
    (v_pc = "done" /\ v_result.tag = "Ok") =>
        /\ StrLen(v_result.text) <= MAX_ENHANCED_CHARS
        /\ StrLen(Trim(v_enhanced)) <= MAX_ENHANCED_CHARS =>
               v_result.text = Trim(v_enhanced)

(***************************************************************************)
(* C23: process_frame answers Speech to a frame classified as speech and   *)
(* clears the silence start; to a frame classified as non-speech it        *)
(* answers SilenceTimeout exactly when the time since the first non-speech *)
(* frame that followed the most recent speech frame, reset() or the        *)
(* construction is at least the threshold, and Silence(that time)          *)
(* otherwise.  reset() clears the silence start.                           *)
(***************************************************************************)
\* index in the log of the last speech frame or reset, 0 when there is none
LastRestart ==
    LET restarts == {i \in DOMAIN sd_log : sd_log[i].kind \in {"speech", "reset"}}
    IN  IF restarts = {} THEN 0
        ELSE CHOOSE i \in restarts : \A j \in restarts : j <= i

\* index in the log of the first non-speech frame after the last restart
FirstQuiet ==
    LET quiet == {i \in DOMAIN sd_log : i > LastRestart /\ sd_log[i].kind = "silence"}
    IN  CHOOSE i \in quiet : \A j \in quiet : i <= j

C23_SilenceCountedFromLastSpeech ==
    sd_log # <<>> =>
        LET last == sd_log[Len(sd_log)]
            elapsed == last.at - sd_log[FirstQuiet].at
        IN  /\ last.kind = "speech" => (sd_status = Speech /\ silence_start = None)
            /\ last.kind = "reset" => silence_start = None
            /\ last.kind = "silence" =>
                   /\ sd_status = SilenceTimeout <=> elapsed >= threshold
                   /\ sd_status # SilenceTimeout => sd_status = Silence(elapsed)

\* a timeout was reported for a silence that began after a speech frame
C23_Witness ==
    /\ sd_status = SilenceTimeout
    /\ threshold >= 1
    /\ sd_log # <<>>
    /\ sd_log[Len(sd_log)].kind = "silence"
    /\ \E i \in DOMAIN sd_log : sd_log[i].kind = "silence" /\ i < LastRestart

(***************************************************************************)
(* C24: start_recording on a capture that is recording returns             *)
(* Err(AlreadyRecording) and leaves the stream, the format, the buffered   *)
(* samples and is_recording as they were; stop_recording on a capture that *)
(* is not recording returns Err(NotRecording) and the capture stays as it  *)
(* was, inactive.                                                          *)
(***************************************************************************)
C24_CaptureErrorsLeaveState ==
    [][/\ (o_calls' = o_calls + 1 /\ o_call' = "start" /\ is_recording) =>
              /\ o_pc' = "idle"
              /\ cap_result' = CaptureErr("AlreadyRecording")
              /\ stream /\ format # NoFormat
              /\ UNCHANGED <<stream, buffer, format, is_recording>>
       /\ (o_call' = "stop" /\ ~o_entry'.is_recording) =>
              /\ Capture(stream', buffer', format', is_recording') = o_entry'
              /\ ~stream' /\ format' = NoFormat /\ ~is_recording'
              /\ o_pc' = "idle" => cap_result' = CaptureErr("NotRecording")]_vars

\* a second start was refused while samples were buffered
C24_Witness ==
    /\ o_pc = "idle"
    /\ o_call = "start"
    /\ cap_result = CaptureErr("AlreadyRecording")
    /\ is_recording
    /\ o_entry.buffer # <<>>
    /\ buffer = o_entry.buffer

C27_PacketsInOrder ==
    (n_pc = "done" /\ n_result.tag = "Ok" /\ n_samples > 0 /\ n_rate = 16000) =>
        LET packets == n_result.packets
            frames == (n_samples + 319) \div 320
        IN  /\ Len(packets) = 2 + frames
            /\ packets[1].payload.magic = "OpusHead"
            /\ packets[2].payload.magic = "OpusTags"
            /\ \A k \in 1..frames :
                   /\ packets[2 + k].payload = "audio"
                   /\ packets[2 + k].granule = 960 * k
                   /\ packets[2 + k].frame.from = 320 * (k - 1)
                   /\ packets[2 + k].frame.to =
                          IF k < frames THEN 320 * k ELSE n_samples
                   /\ packets[2 + k].frame.zeros =
                          IF k < frames THEN 0 ELSE 320 * frames - n_samples
            /\ \A i \in DOMAIN packets :
                   packets[i].end_info = "EndStream" <=> i = Len(packets)

\* an input whose last frame is partial was encoded into several packets
C27_Witness ==
    /\ n_pc = "done"
    /\ n_result.tag = "Ok"
    /\ n_samples % 320 # 0
    /\ Len(n_result.packets) >= 4
    /\ n_result.packets[Len(n_result.packets)].frame.zeros > 0

(***************************************************************************)
(* C28: encode_ogg_opus returns Err(EncodingFailed) for every call whose   *)
(* sample_rate is not 16000, whether samples is empty or not, and Ok with  *)
(* an empty output for an empty input at 16000 Hz.                         *)
(***************************************************************************)
C28_WrongRateRejected ==
    n_pc = "done" =>
        /\ n_rate # 16000 => (n_result.tag = "Err" /\ n_result.err = "EncodingFailed")
        /\ (n_rate = 16000 /\ n_samples = 0) => n_result = EncodeOk(<<>>)

\* samples of one 20 ms frame at the rate trim_silence was called with
TrimFrameSamples == (t_rate * 20) \div 1000

\* the take consists of silent frames only
PureSilence == t_samples.tone = 0

(***************************************************************************)
(* C29 as stated: trim_silence returns an empty slice for every take that  *)
(* consists only of silent 20 ms frames, whatever its length.              *)
(***************************************************************************)
C29_PureSilenceTrimmedToNothing ==
    (t_pc = "done" /\ TrimFrameSamples > 0 /\ PureSilence)
        => t_result.to = t_result.from

(***************************************************************************)
(* C29 amended: for a take that consists only of silent 20 ms frames,      *)
(* trim_silence returns an empty slice when the take lasts at least        *)
(* 200 ms, and the whole take when it has fewer than ten frames, the last  *)
(* shorter one included.                                                   *)
(***************************************************************************)
C29_LongPureSilenceTrimmedToNothing ==
    (t_pc = "done" /\ TrimFrameSamples > 0 /\ PureSilence)
        => /\ TakeLen(t_samples) * 1000 >= 200 * t_rate
                  => t_result.to = t_result.from
           /\ TakeLen(t_samples) <= 9 * TrimFrameSamples
                  => t_result = Slice(0, TakeLen(t_samples))

\* 230 ms of silence, less than the 500 ms of the trailing rule, came back
\* empty
C29_Witness ==
    /\ t_pc = "done"
    /\ t_rate = 100
    /\ PureSilence
    /\ TakeLen(t_samples) = 23
    /\ t_result.to = t_result.from

\* the silence before the first sample of the tone, and after its last one;
\* a take without a tone is one silent run, leading and trailing at once
LeadingRun == IF PureSilence THEN TakeLen(t_samples) ELSE t_samples.lead

TrailingRun == IF PureSilence THEN TakeLen(t_samples) ELSE t_samples.trail

\* the 20 ms frames of the take that hold a sample of the tone
VoicedFrames ==
    {i \in 0..TakeLen(t_samples) :
        /\ i * TrimFrameSamples < TakeLen(t_samples)
        /\ \E k \in (i * TrimFrameSamples)..((i + 1) * TrimFrameSamples - 1) :
               /\ k >= t_samples.lead
               /\ k < t_samples.lead + t_samples.tone}

(***************************************************************************)
(* C30: trim_silence returns a contiguous sub-range of its input that      *)
(* holds every 20 ms frame with a sample of the tone; a leading silent run *)
(* of less than 200 ms and a trailing one of less than 500 ms, counted in  *)
(* samples, are returned untouched.  A take without a tone is one run: it  *)
(* is returned untouched when it is shorter than 200 ms.                   *)
(***************************************************************************)
C30_TrimKeepsVoiceAndShortSilence ==
    (t_pc = "done" /\ TrimFrameSamples > 0)
        => /\ 0 <= t_result.from
           /\ t_result.from <= t_result.to
           /\ t_result.to <= TakeLen(t_samples)
           /\ \A i \in VoicedFrames :
                  /\ t_result.from <= i * TrimFrameSamples
                  /\ \/ (i + 1) * TrimFrameSamples <= t_result.to
                     \/ t_result.to = TakeLen(t_samples)
           /\ LeadingRun * 1000 < 200 * t_rate
                  => (t_result.from = 0 /\ t_result.to >= LeadingRun)
           /\ (~PureSilence /\ TrailingRun * 1000 < 500 * t_rate)
                  => /\ t_result.to = TakeLen(t_samples)
                     /\ t_result.from <= TakeLen(t_samples) - TrailingRun

(***************************************************************************)
(* C31: every chunk chunk_audio returns for sample_rate >= 1 and           *)
(* max_chunk_sec >= 1 holds at most max_chunk_sec * sample_rate samples,   *)
(* the last chunk with a merged remainder included.                        *)
(***************************************************************************)
C31_ChunkWithinMaximum ==
    (c_pc = "done" /\ sample_rate >= 1 /\ max_chunk_sec >= 1)
      => \A i \in 1..Len(chunks) :
           chunks[i].end - chunks[i].start <= max_chunk_sec * sample_rate

\* the requests of the history, in order
TaRequests == SelectSeq(ta_log, LAMBDA e : e.what = "sent")

(***************************************************************************)
(* C32: for a recording split into chunks, transcribe_audio sends the      *)
(* chunks to the provider one at a time in chunk order: a request starts   *)
(* only after the previous one has returned.  The first chunk whose        *)
(* encoding or transcription fails ends the call with that error: no later *)
(* chunk is sent and no text is returned.                                  *)
(***************************************************************************)
C32_ChunksSentInOrder ==
    ta_samples = "long" =>
        /\ \A k \in 1..Len(TaRequests) : TaRequests[k].chunk = k
        /\ \A k \in 1..Len(ta_log) :
               IF k % 2 = 1 THEN ta_log[k].what = "sent"
               ELSE /\ ta_log[k].what = "returned"
                    /\ ta_log[k].chunk = ta_log[k - 1].chunk
        /\ \A k \in 1..Len(ta_log) :
               (ta_log[k].what = "returned" /\ ta_log[k].result.tag = "Err")
                   => /\ k = Len(ta_log)
                      /\ ta_pc = "done"
                      /\ ta_result = ta_log[k].result
        /\ (ta_pc = "done" /\ ta_result = Err("EncodingFailed"))
               => /\ Len(TaRequests) = ta_i
                  /\ Len(ta_log) = 2 * ta_i
        /\ (ta_pc = "done" /\ ta_result.tag = "Ok")
               => /\ Len(TaRequests) = ta_chunks
                  /\ \A k \in 1..Len(ta_log) :
                         ta_log[k].what = "returned" => ta_log[k].result.tag = "Ok"

\* the second of three chunks failed: the call returned its error and the
\* third chunk was not sent
C32_Witness ==
    /\ ta_pc = "done"
    /\ ta_chunks = 3
    /\ Len(ta_log) = 4
    /\ ta_log[4].what = "returned"
    /\ ta_result = ApiError(500)
    /\ ta_texts # <<>>

(***************************************************************************)
(* C33: dispatch_and_update never starts a recording without an API key:   *)
(* under every interleaving of its calls the state does not go from Idle   *)
(* to Recording while has_api_key() is false, and a call the guard rejects *)
(* leaves the state and the tray unchanged.                                *)
(***************************************************************************)
C33_NoRecordingWithoutKey ==
    [][/\ (state = "Idle" /\ state' = "Recording") => has_api_key
       /\ \A t \in Threads :
              GuardRejects(t) => (state' = state /\ tray' = tray)]_vars

(***************************************************************************)
(* C34: the notification of a transition into Idle names what happened:    *)
(* "Text inserted" is sent only for the transition made by PasteDone, and  *)
(* a Cancel or a hotkey that aborts Transcribing, Enhancing or Pasting     *)
(* sends "Processing cancelled".                                           *)
(***************************************************************************)
C34_NotificationNamesTheCause ==
    \A n \in notified :
        /\ n.body = "Text inserted" => n.event = "PasteDone"
        /\ (/\ n.event \in {"Cancel", "HotkeyPressed"}
            /\ n.old \in {"Transcribing", "Enhancing", "Pasting"}
            /\ n.new = "Idle")
               => n.body = "Processing cancelled"

\* the events that report the end of a stage of a session
SessionEvents ==
    {"TranscriptionDone", "EnhancementDone", "PasteDone", "SilenceTimeout"}

(***************************************************************************)
(* C37: a stage-completion event of an earlier session never advances a    *)
(* later one: when an event TranscriptionDone, EnhancementDone, PasteDone  *)
(* or SilenceTimeout that was produced during one session is dispatched    *)
(* after a new recording has been started, the state is left unchanged.    *)
(***************************************************************************)
C37_StaleEventIgnored ==
    [][\A t \in Threads :
           (/\ DispatchWithOld(t)
            /\ du_ev[t].kind \in SessionEvents
            /\ du_sess[t] >= 1
            /\ du_sess[t] < started)
               => state' = state]_vars

\* the events the user can cause in a state: by an item of the menu built
\* for the state, or by the global hotkey
UserEvents(st, mode) ==
    {handle_menu_event(build_menu(st)[i], mode) : i \in DOMAIN build_menu(st)}
    \cup {on_shortcut_event(mode, k) : k \in {"Pressed", "Released"}}

\* the states that are a step towards Idle
TowardsIdle(st) ==
    IF st = "Recording" THEN {"Transcribing"} ELSE {"Idle"}

(***************************************************************************)
(* C38: the user can always bring the application back to Idle: in every   *)
(* state other than Idle, Error included, the tray menu built for the      *)
(* state or the global hotkey offers an action whose event moves the state *)
(* machine towards Idle: a stop in Recording, a cancel in Transcribing,    *)
(* Enhancing and Pasting, an acknowledgement in Error.                     *)
(***************************************************************************)
C38_UserCanReturnToIdle ==
    state # "Idle" =>
        \E e \in UserEvents(state, recording_mode) \ {NoEvent} :
            transition(state, e, recording_mode) \in TowardsIdle(state)

(***************************************************************************)
(* C40: the tray follows the state machine: the tray is never set for an   *)
(* older state after it was set for a newer one, and once every call of    *)
(* dispatch_and_update has returned, the tray shows current_state().       *)
(***************************************************************************)
C40_TrayFollowsState ==
    [][/\ tray_seq' >= tray_seq
       /\ (\A t \in Threads : du_pc'[t] = "idle") => tray' = state']_vars

(***************************************************************************)
(* C39: SharedAppState is deadlock-free.  The only thread that waits while *)
(* it holds a mutex is a dispatcher that holds the state mutex and waits   *)
(* for the mode mutex; the holder of the mode mutex is then inside         *)
(* recording_mode or set_recording_mode and waits for nothing, so no two   *)
(* calls wait on each other's mutex.  A thread holds a mutex exactly while *)
(* it is inside dispatch, dispatch_with_old, current_state, recording_mode *)
(* or set_recording_mode, and both mutexes are free again and again: every *)
(* call that has begun returns, and a call waiting to begin can take its   *)
(* first lock.                                                             *)
(***************************************************************************)
\* thread t holds a mutex and waits for the one thread u holds
WaitsFor(t, u) ==
    /\ pc[t] = "lock_mode"
    /\ state_lock = t
    /\ mode_lock = u

NoCircularWait ==
    \A t, u \in Threads :
        WaitsFor(t, u) =>
            /\ u # t
            /\ pc[u] \in {"rm_read", "rm_drop", "sm_write", "sm_drop"}
            /\ state_lock # u
            /\ \A v \in Threads : ~WaitsFor(u, v)

\* a thread holds a mutex exactly while it is inside a method
LockedWhileInside ==
    \A t \in Threads : (pc[t] # "idle") <=> (state_lock = t \/ mode_lock = t)

C35_PastedRestoresClipboard ==
    paste_status = "Pasted" => clipboard = clip_before

\* the calls of enigo with the modifier key
IsRelease(k) == k.key = "modifier" /\ k.dir = "Release"
IsPressOk(k) == k.key = "modifier" /\ k.dir = "Press" /\ k.res = "Ok"

\* simulate_paste has returned
SimReturned == p_pc \in {"sim_return", "restore", "done"} /\ sim_result # "none"

(***************************************************************************)
(* C36: simulate_paste never leaves the modifier held.  When it has        *)
(* returned, on every path on which the Press of the modifier succeeded,   *)
(* the paths that end with an error of the click of V or of the explicit   *)
(* release included, a Release of the modifier was issued after the Press; *)
(* when the Press failed or was never made, no Release was issued.         *)
(***************************************************************************)
C36_ModifierReleased ==
    SimReturned =>
        /\ \A i \in DOMAIN keys :
               IsPressOk(keys[i]) =>
                   \E j \in DOMAIN keys : j > i /\ IsRelease(keys[j])
        /\ (\A i \in DOMAIN keys : ~IsPressOk(keys[i])) =>
               \A j \in DOMAIN keys : ~IsRelease(keys[j])

\* the explicit release failed after a successful Press and click, and the
\* guard issued the Release again when it was dropped
C36_Witness ==
    /\ SimReturned
    /\ Len(keys) = 4
    /\ IsPressOk(keys[1])
    /\ keys[2] = KeyCall("v", "Click", "Ok")
    /\ keys[3] = KeyCall("modifier", "Release", "Err")
    /\ IsRelease(keys[4])

=============================================================================
